---- MODULE Spec2Model ----
(***************************************************************************)
(* Transfer state machine of the citizen affiliation service.              *)
(*                                                                         *)
(* The registry holds, per citizen id, one Citizen row and one Affiliation *)
(* row.  Every service method and consumer handler is an operator from the *)
(* rows it loads (and the outcomes of the external calls it makes) to the  *)
(* rows it leaves, its return value and the ordered list of its effects    *)
(* (saves, deletes, publishes, HTTP posts).  An action applies one handler *)
(* to the registry, atomically, as one worker running alone does.          *)
(***************************************************************************)
EXTENDS Integers, Sequences, FiniteSets, TLC

VARIABLES
    db,       \* db[c] = [cit |-> Citizen row or NoRow, aff |-> Affiliation row or NoRow]
    last,     \* the operation that ran last: name, citizen id, result, effects in order
    origin,   \* origin[c]: how the row of c was created ("none", "register", "transfer")
    hist,     \* hist[c]: the operations applied to c since receive_transfer created it
    snap,     \* snap[c]: the rows of c as receive_transfer left them
    gateRun,  \* gateRun[c]: consecutive direct gate calls, counted from one that completed
    queue,    \* the inbound messages the broker holds: undelivered or requeued
    disp,     \* what the consumer callback did with the message it was delivered last
    tables,   \* the citizens and affiliations tables, row by row, under concurrent calls
    procs,    \* procs[p]: where call p stands, statement by statement
    scene,    \* which workers run side by side on the citizen of row
    row,      \* the Citizen and Affiliation rows the workers read and save
    wk,       \* wk[w]: worker w's position, the objects it has loaded, what it has emitted
    site,     \* site[o]: the rows of the citizen at operator o, an instance of this service
    net       \* events under way to and from the external services of the operators

vars == <<db, last, origin, hist, snap, gateRun, queue, disp, tables, procs, scene, row, wk, site, net>>

\* ------------------------------------------------------------------ bounds
MaxHist == 3       \* operations remembered per incoming transfer, receive_transfer included
MaxGateRun == 2    \* repeated gate calls explored after a completing one
MaxQueue == 1      \* inbound messages the broker holds at a time

\* ------------------------------------------------------------------ inputs
CitizenIds == {111}

None == "None"     \* Python None / SQL NULL

\* Target operators a caller may name in send_transfer.
Targets ==
    { [operator_id |-> "opA", operator_name |-> "Operator A", api_url |-> "https://a/receive"],
      [operator_id |-> "opB", operator_name |-> "Operator B", api_url |-> "https://b/receive"] }

\* confirmAPI values of a transfer payload: the view checks presence only.
ConfirmUrls == {"https://src/confirm", ""}

HTTP_CREATED == 201
HTTP_OK == 200
StatusCodes == {HTTP_CREATED, 501}
\* What requests.post does: it raises (timeout, connection refused) or it
\* returns a response with a status code.
Raised == [raised |-> TRUE, status_code |-> 0]
Response(code) == [raised |-> FALSE, status_code |-> code]
PostResponses == {Raised} \cup {Response(s) : s \in {HTTP_OK, HTTP_CREATED, 204, 500}}
ConfirmResponses == {Raised} \cup {Response(s) : s \in {HTTP_OK, 500}}
ReqStatuses == {0, 1}

\* The statement of a try block that raises, if any.
ReceiveFaults == {"none", "citizen", "affiliation", "publish"}

\* Outcomes of the external calls one handler run makes: pubs[i] is the result
\* of its i-th publish, http the response of its HTTP POST, validate the
\* answer of the external existence check.
Env(p1, p2, http, validate) == [pubs |-> <<p1, p2>>, http |-> http, validate |-> validate]

\* Python truthiness of an optional string.
Truthy(s) == s # None /\ s # ""

\* ------------------------------------------------------------------ rows
NoRow == [present |-> FALSE]

\* Citizen row.  name, address, email and the operator columns are written
\* once at creation and never again; created_at/updated_at are clock values.
\* Neither is read by any handler, and they are left out.
NewCitizen(is_registered, message) ==
    [ present |-> TRUE,
      is_registered |-> is_registered,
      is_verified |-> FALSE,
      verification_status |-> "pending",
      pending_deletion |-> FALSE,
      verification_message |-> message ]

\* Affiliation row.  A timestamp column is None or "set": the handlers write
\* timezone.now() and never read it back.  transfer_source_operator_id/name
\* are assigned nowhere in the code and stay NULL.
NewAffiliation(status, confirmation_url, started_at) ==
    [ present |-> TRUE,
      status |-> status,
      transfer_destination_operator_id |-> None,
      transfer_destination_operator_name |-> None,
      transfer_destination_api_url |-> None,
      transfer_source_operator_id |-> None,
      transfer_source_operator_name |-> None,
      transfer_confirmation_url |-> confirmation_url,
      transfer_started_at |-> started_at,
      transfer_completed_at |-> None,
      documents_ready |-> FALSE ]

\* ------------------------------------------------------------------ effects
Fx(k, what, arg, res) == [k |-> k, what |-> what, arg |-> arg, res |-> res]
Save(tbl) == Fx("save", tbl, 0, "ok")
SaveAff(status) == [k |-> "save", what |-> "affiliations", arg |-> 0, res |-> status]   \* res: the status written
Delete(tbl) == Fx("delete", tbl, 0, "ok")
Create(tbl) == Fx("create", tbl, 0, "ok")

\* publisher.py: every publish_* returns True or False and never raises.
Publish(ev, id, ok) == Fx("publish", ev, id, IF ok THEN "ok" ELSE "fail")

\* A publish statement inside a try block: besides the publisher's True or
\* False, the statement can raise (int(citizen_id) on a non-numeric id).
PublishOutcomes == {"ok", "fail", "raise"}
TryPublish(ev, id, outcome) == Fx("publish", ev, id, outcome)

Ret(cit, aff, ok, fx) == [cit |-> cit, aff |-> aff, ok |-> ok, fx |-> fx]

\* _send_confirmation: POST {id, req_status} to the url; a non-200 response
\* and an exception are both logged and swallowed.
_send_confirmation(confirmation_url, citizen_id, status, http) ==
    << Fx("confirm", confirmation_url, status,
          IF http.raised THEN "raise"
          ELSE IF http.status_code = HTTP_OK THEN "ok" ELSE "fail") >>

\* ------------------------------------------------------------ faulty variants
\* Each variant below is a handler with one plausible slip; the claims are
\* checked to tell the handler from its variant.

\* The gate undoing the completion when the confirmation POST does not succeed.
check_and_complete_transfer_rolls_back(r, id, http, pub) ==
    IF ~r.cit.present \/ ~r.aff.present THEN Ret(r.cit, r.aff, FALSE, <<>>)
    ELSE IF r.aff.status # "TRANSFERRING" THEN Ret(r.cit, r.aff, FALSE, <<>>)
    ELSE IF r.aff.documents_ready /\ r.cit.is_verified
    THEN IF Truthy(r.aff.transfer_confirmation_url)
            /\ (http.raised \/ http.status_code # HTTP_OK)
         THEN Ret(r.cit, r.aff, FALSE,
                  <<Save("citizens"), SaveAff("AFFILIATED")>>
                    \o _send_confirmation(r.aff.transfer_confirmation_url, id, 1, http)
                    \o <<Save("citizens"), SaveAff("TRANSFERRING")>>)
         ELSE Ret([r.cit EXCEPT !.is_registered = TRUE],
                  [r.aff EXCEPT !.status = "AFFILIATED", !.transfer_completed_at = "set"],
                  TRUE,
                  <<Save("citizens"), SaveAff("AFFILIATED")>>
                    \o (IF Truthy(r.aff.transfer_confirmation_url)
                        THEN _send_confirmation(r.aff.transfer_confirmation_url, id, 1, http)
                        ELSE <<>>)
                    \o <<Publish("affiliation.created", id, pub)>>)
    ELSE Ret(r.cit, r.aff, FALSE, <<>>)

\* The gate without its status == TRANSFERRING precondition.
check_and_complete_transfer_unguarded(r, id, http, pub) ==
    IF ~r.cit.present \/ ~r.aff.present THEN Ret(r.cit, r.aff, FALSE, <<>>)
    ELSE IF r.aff.documents_ready /\ r.cit.is_verified
    THEN Ret([r.cit EXCEPT !.is_registered = TRUE],
             [r.aff EXCEPT !.status = "AFFILIATED", !.transfer_completed_at = "set"],
             TRUE,
             <<Save("citizens"), SaveAff("AFFILIATED")>>
               \o (IF Truthy(r.aff.transfer_confirmation_url)
                   THEN _send_confirmation(r.aff.transfer_confirmation_url, id, 1, http)
                   ELSE <<>>)
               \o <<Publish("affiliation.created", id, pub)>>)
    ELSE Ret(r.cit, r.aff, FALSE, <<>>)

\* ------------------------------------------------------------ Completion Gate
\* TransferService.check_and_complete_transfer.  citizen.affiliation on a
\* citizen without affiliation raises, which the method catches.
check_and_complete_transfer(r, id, http, pub) ==
    IF ~r.cit.present \/ ~r.aff.present THEN Ret(r.cit, r.aff, FALSE, <<>>)
    ELSE IF r.aff.status # "TRANSFERRING" THEN Ret(r.cit, r.aff, FALSE, <<>>)
    ELSE IF r.aff.documents_ready /\ r.cit.is_verified
    THEN Ret([r.cit EXCEPT !.is_registered = TRUE],
             [r.aff EXCEPT !.status = "AFFILIATED", !.transfer_completed_at = "set"],
             TRUE,
             <<Save("citizens"), SaveAff("AFFILIATED")>>
               \o (IF Truthy(r.aff.transfer_confirmation_url)
                   THEN _send_confirmation(r.aff.transfer_confirmation_url, id, 1, http)
                   ELSE <<>>)
               \o <<Publish("affiliation.created", id, pub)>>)
    ELSE Ret(r.cit, r.aff, FALSE, <<>>)

\* ------------------------------------------------------------ incoming transfer
\* signals.citizen_post_save: fires inside Citizen.objects.create.
citizen_post_save(created, is_registered, id, pub) ==
    IF created /\ is_registered THEN <<Publish("affiliation.created", id, pub)>> ELSE <<>>

\* receive_transfer without the check that the citizen already exists.
receive_transfer_no_existence_check(r, id, confirmAPI, raises, pub) ==
    Ret(NewCitizen(FALSE, "Waiting for documents and MINTIC verification"),
        NewAffiliation("TRANSFERRING", confirmAPI, "set"),
        TRUE,
        <<Create("citizens")>> \o citizen_post_save(TRUE, FALSE, id, pub)
          \o <<Create("affiliations"),
               Publish("documents.download.requested", id, pub)>>)

\* receive_transfer that does not store the payload's confirmAPI.
receive_transfer_drops_callback(r, id, confirmAPI, raises, pub) ==
    IF r.cit.present THEN Ret(r.cit, r.aff, FALSE, <<>>)
    ELSE Ret(NewCitizen(FALSE, "Waiting for documents and MINTIC verification"),
             NewAffiliation("TRANSFERRING", None, "set"),
             TRUE,
             <<Create("citizens")>> \o citizen_post_save(TRUE, FALSE, id, pub)
               \o <<Create("affiliations"),
                    Publish("documents.download.requested", id, pub)>>)

\* receive_transfer asking for the external registration at once, in
\* parallel with the document download.
receive_transfer_requests_registration(r, id, confirmAPI, raises, pub) ==
    IF r.cit.present THEN Ret(r.cit, r.aff, FALSE, <<>>)
    ELSE Ret(NewCitizen(FALSE, "Waiting for documents and MINTIC verification"),
             NewAffiliation("TRANSFERRING", confirmAPI, "set"),
             TRUE,
             <<Create("citizens")>> \o citizen_post_save(TRUE, FALSE, id, pub)
               \o <<Create("affiliations"),
                    Publish("documents.download.requested", id, pub),
                    Publish("register.citizen.requested", id, pub)>>)

\* TransferService.receive_transfer.  `raises` names the statement of the try
\* block that raises, if any: Citizen.objects.create, Affiliation.objects.create
\* or the publish statement (int(citizen_id) on a non-numeric id).  The except
\* clause deletes the citizen when it was created; the delete cascades to the
\* affiliation.  A publish that returns False raises nothing, and its result
\* is not read.
receive_transfer(r, id, confirmAPI, raises, pub) ==
    IF r.cit.present THEN Ret(r.cit, r.aff, FALSE, <<>>)
    ELSE IF raises = "citizen"
    THEN Ret(NoRow, NoRow, FALSE, <<Fx("create", "citizens", 0, "raise")>>)
    ELSE IF raises = "affiliation"
    THEN Ret(NoRow, NoRow, FALSE,
             <<Create("citizens")>> \o citizen_post_save(TRUE, FALSE, id, pub)
               \o <<Fx("create", "affiliations", 0, "raise"), Delete("citizens")>>)
    ELSE IF raises = "publish"
    THEN Ret(NoRow, NoRow, FALSE,
             <<Create("citizens")>> \o citizen_post_save(TRUE, FALSE, id, pub)
               \o <<Create("affiliations"),
                    Fx("publish", "documents.download.requested", id, "raise"),
                    Delete("affiliations"), Delete("citizens")>>)
    ELSE Ret(NewCitizen(FALSE, "Waiting for documents and MINTIC verification"),
             NewAffiliation("TRANSFERRING", confirmAPI, "set"),
             TRUE,
             <<Create("citizens")>> \o citizen_post_save(TRUE, FALSE, id, pub)
               \o <<Create("affiliations"),
                    Publish("documents.download.requested", id, pub)>>)

\* documents.ready handling that forgets to run the gate.
complete_transfer_after_documents_no_gate(r, id, env) ==
    IF ~r.cit.present \/ ~r.aff.present THEN Ret(r.cit, r.aff, FALSE, <<>>)
    ELSE Ret(r.cit, [r.aff EXCEPT !.documents_ready = TRUE], TRUE,
             <<SaveAff(r.aff.status),
               Publish("register.citizen.requested", id, env.pubs[1])>>)

\* TransferService.complete_transfer_after_documents.  No status check: the
\* flag is set and register.citizen.requested published for any citizen.
complete_transfer_after_documents(r, id, env) ==
    IF ~r.cit.present \/ ~r.aff.present THEN Ret(r.cit, r.aff, FALSE, <<>>)
    ELSE LET aff1 == [r.aff EXCEPT !.documents_ready = TRUE]
             g == check_and_complete_transfer([cit |-> r.cit, aff |-> aff1], id,
                                              env.http, env.pubs[2])
         IN Ret(g.cit, g.aff, TRUE,
                <<SaveAff(aff1.status),
                  Publish("register.citizen.requested", id, env.pubs[1])>> \o g.fx)

\* documents_ready_consumer.handle_documents_ready (idCitizen present).
handle_documents_ready(r, id, env) == complete_transfer_after_documents(r, id, env)

\* register.completed(201) marking AFFILIATED without asking the gate.
handle_register_citizen_completed_short_circuit(r, id, status_code, env) ==
    IF ~r.cit.present THEN Ret(r.cit, r.aff, TRUE, <<>>)
    ELSE LET good == status_code = HTTP_CREATED
             cit1 == [r.cit EXCEPT !.is_verified = good,
                                   !.verification_status =
                                       IF good THEN "verified" ELSE "failed",
                                   !.verification_message =
                                       IF good THEN "Citizen successfully registered in MINTIC"
                                       ELSE "Registration failed with status code"]
             status == IF good THEN "AFFILIATED" ELSE "FAILED"
         IN IF ~r.aff.present THEN Ret(cit1, r.aff, TRUE, <<Save("citizens")>>)
            ELSE Ret(cit1, [r.aff EXCEPT !.status = status], TRUE,
                     <<Save("citizens"), SaveAff(status)>>)

\* register.completed(201) that sets the is_verified flag and forgets the
\* verification status.
handle_register_citizen_completed_flag_only(r, id, status_code, env) ==
    IF ~r.cit.present THEN Ret(r.cit, r.aff, TRUE, <<>>)
    ELSE IF status_code = HTTP_CREATED
    THEN LET cit1 == [r.cit EXCEPT !.is_verified = TRUE,
                                   !.verification_message =
                                       "Citizen successfully registered in MINTIC"]
         IN IF ~r.aff.present THEN Ret(cit1, r.aff, TRUE, <<Save("citizens")>>)
            ELSE IF r.aff.status = "TRANSFERRING"
            THEN LET g == check_and_complete_transfer([cit |-> cit1, aff |-> r.aff], id,
                                                      env.http, env.pubs[1])
                 IN Ret(g.cit, g.aff, TRUE, <<Save("citizens")>> \o g.fx)
            ELSE Ret(cit1, [r.aff EXCEPT !.status = "AFFILIATED"], TRUE,
                     <<Save("citizens"), SaveAff("AFFILIATED")>>)
    ELSE LET cit1 == [r.cit EXCEPT !.is_verified = FALSE,
                                   !.verification_status = "failed",
                                   !.verification_message =
                                       "Registration failed with status code"]
         IN IF ~r.aff.present THEN Ret(cit1, r.aff, TRUE, <<Save("citizens")>>)
            ELSE Ret(cit1, [r.aff EXCEPT !.status = "FAILED"], TRUE,
                     <<Save("citizens"), SaveAff("FAILED")>>)

\* register.completed that leaves the affiliation status alone when the
\* status code is not 201.
handle_register_citizen_completed_keeps_status(r, id, status_code, env) ==
    IF ~r.cit.present THEN Ret(r.cit, r.aff, TRUE, <<>>)
    ELSE IF status_code = HTTP_CREATED
    THEN LET cit1 == [r.cit EXCEPT !.is_verified = TRUE,
                                   !.verification_status = "verified",
                                   !.verification_message =
                                       "Citizen successfully registered in MINTIC"]
         IN IF ~r.aff.present THEN Ret(cit1, r.aff, TRUE, <<Save("citizens")>>)
            ELSE IF r.aff.status = "TRANSFERRING"
            THEN LET g == check_and_complete_transfer([cit |-> cit1, aff |-> r.aff], id,
                                                      env.http, env.pubs[1])
                 IN Ret(g.cit, g.aff, TRUE, <<Save("citizens")>> \o g.fx)
            ELSE Ret(cit1, [r.aff EXCEPT !.status = "AFFILIATED"], TRUE,
                     <<Save("citizens"), SaveAff("AFFILIATED")>>)
    ELSE Ret([r.cit EXCEPT !.is_verified = FALSE,
                           !.verification_status = "failed",
                           !.verification_message = "Registration failed with status code"],
             r.aff, TRUE, <<Save("citizens")>>)

\* register_citizen_consumer.handle_register_citizen_completed.
handle_register_citizen_completed(r, id, status_code, env) ==
    IF ~r.cit.present THEN Ret(r.cit, r.aff, TRUE, <<>>)
    ELSE IF status_code = HTTP_CREATED
    THEN LET cit1 == [r.cit EXCEPT !.is_verified = TRUE,
                                   !.verification_status = "verified",
                                   !.verification_message =
                                       "Citizen successfully registered in MINTIC"]
         IN IF ~r.aff.present THEN Ret(cit1, r.aff, TRUE, <<Save("citizens")>>)
            ELSE IF r.aff.status = "TRANSFERRING"
            THEN LET g == check_and_complete_transfer([cit |-> cit1, aff |-> r.aff], id,
                                                      env.http, env.pubs[1])
                 IN Ret(g.cit, g.aff, TRUE, <<Save("citizens")>> \o g.fx)
            ELSE Ret(cit1, [r.aff EXCEPT !.status = "AFFILIATED"], TRUE,
                     <<Save("citizens"), SaveAff("AFFILIATED")>>)
    ELSE LET cit1 == [r.cit EXCEPT !.is_verified = FALSE,
                                   !.verification_status = "failed",
                                   !.verification_message =
                                       "Registration failed with status code"]
         IN IF ~r.aff.present THEN Ret(cit1, r.aff, TRUE, <<Save("citizens")>>)
            ELSE Ret(cit1, [r.aff EXCEPT !.status = "FAILED"], TRUE,
                     <<Save("citizens"), SaveAff("FAILED")>>)

\* ------------------------------------------------------------ outgoing transfer
\* send_transfer without its status == AFFILIATED precondition.
send_transfer_unguarded(r, id, target_operator, pub) ==
    IF ~r.cit.present \/ ~r.aff.present THEN Ret(r.cit, r.aff, FALSE, <<>>)
    ELSE LET aff1 == [r.aff EXCEPT
                        !.status = "TRANSFERRING",
                        !.transfer_destination_operator_id = target_operator.operator_id,
                        !.transfer_destination_operator_name = target_operator.operator_name,
                        !.transfer_destination_api_url = target_operator.api_url,
                        !.transfer_started_at = "set"]
             sent == <<SaveAff(aff1.status),
                       Publish("unregister.citizen.requested", id, pub)>>
         IN IF ~pub
            THEN Ret(r.cit,
                     [aff1 EXCEPT !.status = "AFFILIATED",
                                  !.transfer_destination_operator_id = None,
                                  !.transfer_destination_operator_name = None],
                     FALSE, sent \o <<SaveAff("AFFILIATED")>>)
            ELSE Ret(r.cit, aff1, TRUE, sent)

\* TransferService.send_transfer.  The rollback after a failed publish resets
\* the status and two of the three destination columns.
send_transfer(r, id, target_operator, pub) ==
    IF ~r.cit.present \/ ~r.aff.present THEN Ret(r.cit, r.aff, FALSE, <<>>)
    ELSE IF r.aff.status # "AFFILIATED" THEN Ret(r.cit, r.aff, FALSE, <<>>)
    ELSE LET aff1 == [r.aff EXCEPT
                        !.status = "TRANSFERRING",
                        !.transfer_destination_operator_id = target_operator.operator_id,
                        !.transfer_destination_operator_name = target_operator.operator_name,
                        !.transfer_destination_api_url = target_operator.api_url,
                        !.transfer_started_at = "set"]
             sent == <<SaveAff(aff1.status),
                       Publish("unregister.citizen.requested", id, pub)>>
         IN IF ~pub
            THEN Ret(r.cit,
                     [aff1 EXCEPT !.status = "AFFILIATED",
                                  !.transfer_destination_operator_id = None,
                                  !.transfer_destination_operator_name = None],
                     FALSE, sent \o <<SaveAff("AFFILIATED")>>)
            ELSE Ret(r.cit, aff1, TRUE, sent)

\* TransferService.continue_transfer_after_unregister.  Writes nothing: it
\* fetches the document URLs (every failure of that call yields {}), posts the
\* payload to the stored destination URL and reports the outcome.  The post
\* effect carries the status code of the response (0 when the call raised).
continue_transfer_after_unregister(r, id, http) ==
    IF ~r.cit.present \/ ~r.aff.present THEN Ret(r.cit, r.aff, FALSE, <<>>)
    ELSE IF r.aff.status # "TRANSFERRING" THEN Ret(r.cit, r.aff, FALSE, <<>>)
    ELSE IF ~Truthy(r.aff.transfer_destination_api_url)
    THEN Ret(r.cit, r.aff, FALSE, <<Fx("get", "documents", id, "ok")>>)
    ELSE LET accepted == ~http.raised /\ http.status_code \in {HTTP_OK, HTTP_CREATED}
         IN Ret(r.cit, r.aff, accepted,
                <<Fx("get", "documents", id, "ok"),
                  Fx("post", r.aff.transfer_destination_api_url, http.status_code,
                     IF http.raised THEN "raise" ELSE IF accepted THEN "ok" ELSE "fail")>>)

\* unregister.completed that deletes only after a successful user.transferred.
handle_unregister_citizen_completed_needs_emit(r, id, success, env) ==
    IF ~r.cit.present THEN Ret(r.cit, r.aff, TRUE, <<>>)
    ELSE IF success
    THEN IF r.aff.present /\ r.aff.status = "TRANSFERRING"
         THEN LET t == continue_transfer_after_unregister(r, id, env.http)
              IN Ret(t.cit, t.aff, TRUE, t.fx)
         ELSE IF env.pubs[1] # "ok"
         THEN Ret(r.cit, r.aff, TRUE, <<TryPublish("user.transferred", id, env.pubs[1])>>)
         ELSE Ret(NoRow, NoRow, TRUE,
                  <<TryPublish("user.transferred", id, env.pubs[1])>>
                    \o (IF r.aff.present THEN <<Delete("affiliations")>> ELSE <<>>)
                    \o <<Delete("citizens")>>)
    ELSE LET cit1 == [r.cit EXCEPT !.pending_deletion = FALSE,
                                   !.verification_message = "Unregister failed"]
         IN IF ~r.aff.present THEN Ret(cit1, r.aff, TRUE, <<Save("citizens")>>)
            ELSE Ret(cit1, [r.aff EXCEPT !.status = "AFFILIATED"], TRUE,
                     <<Save("citizens"), SaveAff("AFFILIATED")>>)

\* unregister_citizen_consumer.handle_unregister_citizen_completed.  The
\* failure branch resets pending_deletion and the status, nothing else.
\* env.pubs[1] is the outcome of the publish statement, which sits in a try
\* block of its own.
handle_unregister_citizen_completed(r, id, success, env) ==
    IF ~r.cit.present THEN Ret(r.cit, r.aff, TRUE, <<>>)
    ELSE IF success
    THEN IF r.aff.present /\ r.aff.status = "TRANSFERRING"
         THEN LET t == continue_transfer_after_unregister(r, id, env.http)
              IN Ret(t.cit, t.aff, TRUE, t.fx)
         ELSE Ret(NoRow, NoRow, TRUE,
                  <<TryPublish("user.transferred", id, env.pubs[1])>>
                    \o (IF r.aff.present THEN <<Delete("affiliations")>> ELSE <<>>)
                    \o <<Delete("citizens")>>)
    ELSE LET cit1 == [r.cit EXCEPT !.pending_deletion = FALSE,
                                   !.verification_message = "Unregister failed"]
         IN IF ~r.aff.present THEN Ret(cit1, r.aff, TRUE, <<Save("citizens")>>)
            ELSE Ret(cit1, [r.aff EXCEPT !.status = "AFFILIATED"], TRUE,
                     <<Save("citizens"), SaveAff("AFFILIATED")>>)

\* Confirmation handling that deletes the rows before it emits user.transferred.
handle_transfer_confirmation_deletes_first(r, id, req_status, pub) ==
    IF ~r.cit.present \/ ~r.aff.present THEN Ret(r.cit, r.aff, FALSE, <<>>)
    ELSE IF req_status = 1
    THEN Ret(NoRow, NoRow, TRUE,
             <<SaveAff("TRANSFERRED"), Delete("affiliations"), Delete("citizens"),
               Publish("user.transferred", id, pub)>>)
    ELSE Ret(r.cit,
             [r.aff EXCEPT !.status = "AFFILIATED",
                           !.transfer_destination_operator_id = None,
                           !.transfer_destination_operator_name = None],
             FALSE, <<SaveAff("AFFILIATED")>>)

\* TransferService.handle_transfer_confirmation.  No check of the current
\* status; any req_status other than 1 takes the rollback branch.
handle_transfer_confirmation(r, id, req_status, pub) ==
    IF ~r.cit.present \/ ~r.aff.present THEN Ret(r.cit, r.aff, FALSE, <<>>)
    ELSE IF req_status = 1
    THEN Ret(NoRow, NoRow, TRUE,
             <<SaveAff("TRANSFERRED"),
               Publish("user.transferred", id, pub),
               Delete("affiliations"), Delete("citizens")>>)
    ELSE Ret(r.cit,
             [r.aff EXCEPT !.status = "AFFILIATED",
                           !.transfer_destination_operator_id = None,
                           !.transfer_destination_operator_name = None],
             FALSE, <<SaveAff("AFFILIATED")>>)

\* ------------------------------------------------------------ registration
\* register_citizen undoing the local create when register.citizen.requested
\* cannot be published.
register_citizen_rolls_back(r, id, env) ==
    IF r.cit.present /\ (r.cit.is_verified \/ r.cit.verification_status = "pending")
    THEN Ret(r.cit, r.aff, FALSE, <<>>)
    ELSE IF env.validate THEN Ret(r.cit, r.aff, FALSE, <<>>)
    ELSE IF r.cit.present THEN Ret(r.cit, r.aff, FALSE, <<>>)
    ELSE LET made == <<Create("citizens")>> \o citizen_post_save(TRUE, TRUE, id, env.pubs[1])
                       \o <<Create("affiliations"),
                            Publish("register.citizen.requested", id, env.pubs[2])>>
         IN IF env.pubs[2]
            THEN Ret(NewCitizen(TRUE, "Waiting for MINTIC verification"),
                     NewAffiliation("PENDING", None, None), TRUE, made)
            ELSE Ret(NoRow, NoRow, FALSE,
                     made \o <<Delete("affiliations"), Delete("citizens")>>)

\* CitizenService.register_citizen.  An existing citizen whose verification
\* failed passes both guards; Citizen.objects.create then violates the unique
\* constraint on citizen_id and the method returns failure.
register_citizen(r, id, env) ==
    IF r.cit.present /\ (r.cit.is_verified \/ r.cit.verification_status = "pending")
    THEN Ret(r.cit, r.aff, FALSE, <<>>)
    ELSE IF env.validate THEN Ret(r.cit, r.aff, FALSE, <<>>)
    ELSE IF r.cit.present THEN Ret(r.cit, r.aff, FALSE, <<>>)
    ELSE Ret(NewCitizen(TRUE, "Waiting for MINTIC verification"),
             NewAffiliation("PENDING", None, None),
             TRUE,
             <<Create("citizens")>> \o citizen_post_save(TRUE, TRUE, id, env.pubs[1])
               \o <<Create("affiliations"),
                    Publish("register.citizen.requested", id, env.pubs[2])>>)

\* delete_affiliation without the check that a deletion is already pending.
delete_affiliation_no_pending_check(r, id, pub) ==
    IF ~r.cit.present THEN Ret(r.cit, r.aff, FALSE, <<>>)
    ELSE LET cit1 == [r.cit EXCEPT !.pending_deletion = TRUE,
                                   !.verification_message =
                                       "Waiting for MINTIC unregister confirmation"]
             aff1 == IF r.aff.present THEN [r.aff EXCEPT !.status = "PENDING_DELETION"]
                     ELSE r.aff
             marked == <<Save("citizens")>>
                         \o (IF r.aff.present THEN <<SaveAff(aff1.status)>> ELSE <<>>)
                         \o <<Publish("unregister.citizen.requested", id, pub)>>
         IN IF ~pub
            THEN Ret([cit1 EXCEPT !.pending_deletion = FALSE, !.verification_message = None],
                     IF r.aff.present THEN [aff1 EXCEPT !.status = "AFFILIATED"] ELSE r.aff,
                     FALSE,
                     marked \o <<Save("citizens")>>
                       \o (IF r.aff.present
                           THEN <<SaveAff("AFFILIATED")>> ELSE <<>>))
            ELSE Ret(cit1, aff1, TRUE, marked)

\* CitizenService.delete_affiliation.
delete_affiliation(r, id, pub) ==
    IF ~r.cit.present THEN Ret(r.cit, r.aff, FALSE, <<>>)
    ELSE IF r.cit.pending_deletion THEN Ret(r.cit, r.aff, FALSE, <<>>)
    ELSE LET cit1 == [r.cit EXCEPT !.pending_deletion = TRUE,
                                   !.verification_message =
                                       "Waiting for MINTIC unregister confirmation"]
             aff1 == IF r.aff.present THEN [r.aff EXCEPT !.status = "PENDING_DELETION"]
                     ELSE r.aff
             marked == <<Save("citizens")>>
                         \o (IF r.aff.present THEN <<SaveAff(aff1.status)>> ELSE <<>>)
                         \o <<Publish("unregister.citizen.requested", id, pub)>>
         IN IF ~pub
            THEN Ret([cit1 EXCEPT !.pending_deletion = FALSE, !.verification_message = None],
                     IF r.aff.present THEN [aff1 EXCEPT !.status = "AFFILIATED"] ELSE r.aff,
                     FALSE,
                     marked \o <<Save("citizens")>>
                       \o (IF r.aff.present
                           THEN <<SaveAff("AFFILIATED")>> ELSE <<>>))
            ELSE Ret(cit1, aff1, TRUE, marked)

\* ------------------------------------------------------------ state machine
Rows(c) == db[c]
NoRows == [cit |-> NoRow, aff |-> NoRow]

\* The effects of one kind among the effects of a handler run, in order.
OfKind(fx, k) == SelectSeq(fx, LAMBDA e : e.k = k)

\* The URLs the confirmation POSTs of a handler run went to, in order.
ConfirmedTo(fx) == [i \in 1..Len(OfKind(fx, "confirm")) |-> OfKind(fx, "confirm")[i].what]

More == <<[op |-> "more", posts |-> <<>>]>>

\* The argument of an operation, as last records it: a record whose one
\* field is named after the handler's parameter.
NoArg == [none |-> TRUE]

\* ------------------------------------------------------------ consumer callback
\* The inbound queues and the handler each one is consumed with.
Queues == {"documents.ready", "register.citizen.completed", "unregister.citizen.completed"}

\* Bodies a message can carry: a JSON object, bytes that are not UTF-8, text
\* that is not JSON, JSON that is not an object.
Malformed == {"not_utf8", "not_json", "not_object"}

Message(q, body, id, arg) ==
    [queue |-> q, body |-> body, id |-> id, arg |-> arg]

\* A body that cannot be decoded is rejected before the callback calls the
\* handler of its queue: one queue stands for all three.
Messages ==
    {Message("documents.ready", b, 0, NoArg) : b \in {"not_utf8", "not_json"}}
      \cup {Message(q, "not_object", 0, NoArg) : q \in Queues}
      \cup {Message("documents.ready", "object", c, NoArg) : c \in CitizenIds}
      \cup {Message("register.citizen.completed", "object", c, [status_code |-> code]) :
               c \in CitizenIds, code \in StatusCodes}
      \cup {Message("unregister.citizen.completed", "object", c, [success |-> b]) :
               c \in CitizenIds, b \in BOOLEAN}

HandlerOf(q) ==
    CASE q = "documents.ready" -> "handle_documents_ready"
      [] q = "register.citizen.completed" -> "handle_register_citizen_completed"
      [] q = "unregister.citizen.completed" -> "handle_unregister_citizen_completed"

TagOf(m) ==
    CASE m.queue = "documents.ready" -> "documents.ready"
      [] m.queue = "register.citizen.completed" ->
             IF m.arg.status_code = HTTP_CREATED THEN "register.completed.201"
             ELSE "register.completed.failed"
      [] m.queue = "unregister.citizen.completed" ->
             IF m.arg.success THEN "unregister.completed.ok" ELSE "unregister.completed.failed"

\* The outcomes of the external calls the handler of queue q can meet: every
\* publish of the run succeeds or every one fails, the HTTP call raises or
\* is answered.
EnvsOf(q) ==
    IF q = "unregister.citizen.completed"
    THEN {Env(p1, p1, http, FALSE) : p1 \in PublishOutcomes, http \in ConfirmResponses}
    ELSE {Env(p1, p1, http, FALSE) : p1 \in BOOLEAN, http \in {Raised, Response(HTTP_OK)}}

\* Handlers that treat an unknown citizen as an error and raise.
handler_func_raises_unknown(m, r, env, dbfail) ==
    IF ~r.cit.present
    THEN [raised |-> TRUE, res |-> Ret(r.cit, r.aff, FALSE, <<>>)]
    ELSE IF m.queue = "documents.ready"
    THEN [raised |-> FALSE, res |-> handle_documents_ready(r, m.id, env)]
    ELSE IF m.queue = "register.citizen.completed"
    THEN [raised |-> dbfail,
          res |-> IF dbfail
                  THEN Ret(r.cit, r.aff, FALSE, <<Fx("save", "citizens", 0, "raise")>>)
                  ELSE handle_register_citizen_completed(r, m.id, m.arg.status_code, env)]
    ELSE [raised |-> FALSE,
          res |-> handle_unregister_citizen_completed(r, m.id, m.arg.success, env)]

\* handler_func(message) for a message whose body is a JSON object: what the
\* handler leaves and whether it raises.  dbfail: the first write to the
\* registry the run makes raises (database unavailable).  Each handler wraps
\* its body in try/except and re-raises; complete_transfer_after_documents
\* and continue_transfer_after_unregister catch every exception themselves
\* and return a failure result, which the handler logs.
handler_func(m, r, env, dbfail) ==
    IF m.queue = "documents.ready"
    THEN IF dbfail /\ r.cit.present /\ r.aff.present
         THEN [raised |-> FALSE,
               res |-> Ret(r.cit, r.aff, FALSE, <<Fx("save", "affiliations", 0, "raise")>>)]
         ELSE [raised |-> FALSE, res |-> handle_documents_ready(r, m.id, env)]
    ELSE IF m.queue = "register.citizen.completed"
    THEN IF dbfail /\ r.cit.present
         THEN [raised |-> TRUE,
               res |-> Ret(r.cit, r.aff, FALSE, <<Fx("save", "citizens", 0, "raise")>>)]
         ELSE [raised |-> FALSE,
               res |-> handle_register_citizen_completed(r, m.id, m.arg.status_code, env)]
    ELSE IF dbfail /\ r.cit.present /\ ~m.arg.success
    THEN [raised |-> TRUE,
          res |-> Ret(r.cit, r.aff, FALSE, <<Fx("save", "citizens", 0, "raise")>>)]
    ELSE IF dbfail /\ r.cit.present /\ ~(r.aff.present /\ r.aff.status = "TRANSFERRING")
    THEN [raised |-> TRUE,
          res |-> Ret(r.cit, r.aff, FALSE,
                      <<TryPublish("user.transferred", m.id, env.pubs[1]),
                        Fx("delete", IF r.aff.present THEN "affiliations" ELSE "citizens",
                           0, "raise")>>)]
    ELSE [raised |-> FALSE,
          res |-> handle_unregister_citizen_completed(r, m.id, m.arg.success, env)]

\* create_message_handler.callback: the channel calls it makes for a message,
\* and whether it got as far as calling the handler.  json.loads(body.decode)
\* raises UnicodeDecodeError on bytes that are not UTF-8, which is not a
\* JSONDecodeError; a body that is JSON but no object makes message.get raise
\* inside the handler, which re-raises.
callback(m, raised) ==
    IF m.body = "not_json" THEN [invoked |-> FALSE, calls |-> <<"basic_nack">>]
    ELSE IF m.body = "not_utf8" THEN [invoked |-> FALSE, calls |-> <<"basic_nack_requeue">>]
    ELSE IF m.body = "not_object" \/ raised
    THEN [invoked |-> TRUE, calls |-> <<"basic_nack_requeue">>]
    ELSE [invoked |-> TRUE, calls |-> <<"basic_ack">>]

NoDelivery ==
    [seq |-> 0, msg |-> Message("none", "none", 0, NoArg), invoked |-> FALSE,
     raised |-> FALSE, calls |-> <<>>]

\* The broker after the callback's channel calls: basic_nack with requeue
\* leaves the message in the queue, to be delivered again; every other call
\* removes it.
Settle(q, m, calls) ==
    IF "basic_nack_requeue" \in {calls[i] : i \in 1..Len(calls)} THEN q ELSE q \ {m}

Delivery(m, cb, raised) ==
    [seq |-> 1 - disp.seq, msg |-> m, invoked |-> cb.invoked, raised |-> raised,
     calls |-> cb.calls]

\* ------------------------------------------------------------ concurrent calls
\* Calls on one citizen_id that run at the same time, each in its own
\* thread and without a transaction: every ORM statement commits on its own.
\* A row is named by its primary key, here the call that inserted it.
Creators == {1, 2}
Confirmer == 3
Procs == Creators \cup {Confirmer}
CreatorKinds == {"register_citizen", "receive_transfer"}

\* The statement of the try block that raises for a reason of its own.
CreateFaults(kind) ==
    IF kind = "receive_transfer" THEN {"none", "affiliation", "publish"}
    ELSE {"none", "affiliation"}

\* citizen: the row the call's local variable citizen is bound to (0: unbound).
Idle == [pc |-> "idle", kind |-> "none", fault |-> "none", citizen |-> 0, ok |-> FALSE,
         err |-> "none"]

NoTables == [citizens |-> {}, affiliations |-> {}]

\* Citizen.objects.create on a table without the unique constraint.
citizens_create_not_unique(t, pk) ==
    [raised |-> FALSE, t |-> [t EXCEPT !.citizens = @ \cup {pk}]]

\* Citizen.objects.create(citizen_id=...): citizen_id is unique.
citizens_create(t, pk) ==
    IF t.citizens = {}
    THEN [raised |-> FALSE, t |-> [t EXCEPT !.citizens = @ \cup {pk}]]
    ELSE [raised |-> TRUE, t |-> t]

\* Affiliation.objects.create(citizen=citizen): a one-to-one foreign key.
affiliations_create(t, pk, citizen) ==
    IF citizen \in t.citizens /\ ~\E a \in t.affiliations : a.citizen = citizen
    THEN [raised |-> FALSE,
          t |-> [t EXCEPT !.affiliations = @ \cup {[pk |-> pk, citizen |-> citizen]}]]
    ELSE [raised |-> TRUE, t |-> t]

\* citizen.delete(): on_delete=CASCADE takes the affiliation along.
citizen_delete(t, citizen) ==
    [citizens |-> t.citizens \ {citizen},
     affiliations |-> {a \in t.affiliations : a.citizen # citizen}]

\* affiliation.delete()
affiliation_delete(t, citizen) ==
    [t EXCEPT !.affiliations = {a \in @ : a.citizen # citizen}]

HasAffiliation(t, citizen) == \E a \in t.affiliations : a.citizen = citizen

\* A compensating delete that removes whatever row holds the citizen_id.
rollback_by_citizen_id(t, kind, citizen) ==
    IF kind = "receive_transfer" THEN NoTables ELSE t

\* The except clause: receive_transfer deletes the citizen it has created,
\* if it has; register_citizen deletes nothing.
rollback(t, kind, citizen) ==
    IF kind = "receive_transfer" /\ citizen # 0 THEN citizen_delete(t, citizen) ELSE t

\* ------------------------------------------------------------ workers on one citizen
\* The consumers run one thread per queue and the API one per request; none
\* takes a lock or opens a transaction.  A worker loads model objects, changes
\* them in memory and saves them; save() writes every column of the row.
Workers == {"documents", "register", "send1", "send2"}

WorkersOf(s) ==
    IF s = "gate" THEN {"documents", "register"}
    ELSE IF s = "send" THEN {"send1", "send2"}
    ELSE {}

TargetOf(w) ==
    IF w = "send1"
    THEN [operator_id |-> "opA", operator_name |-> "Operator A", api_url |-> "https://a/receive"]
    ELSE [operator_id |-> "opB", operator_name |-> "Operator B", api_url |-> "https://b/receive"]

Resting == [pc |-> "idle", citizen |-> NoRow, affiliation |-> NoRow, ok |-> FALSE, fx |-> <<>>]

\* The rows of a citizen that receive_transfer has just created.
IncomingRows(url) ==
    LET res == receive_transfer(NoRows, 111, url, "none", TRUE)
    IN [cit |-> res.cit, aff |-> res.aff]

\* The rows of a citizen that was registered and verified.
AffiliatedRows ==
    LET e == Env(TRUE, TRUE, Raised, FALSE)
        reg == register_citizen(NoRows, 111, e)
        res == handle_register_citizen_completed([cit |-> reg.cit, aff |-> reg.aff],
                                                 111, HTTP_CREATED, e)
    IN [cit |-> res.cit, aff |-> res.aff]

\* A gate that checks the citizen object its caller had loaded.
gate_citizen_stale(stored, loaded) == IF loaded.present THEN loaded ELSE stored

\* check_and_complete_transfer loads the citizen anew.
gate_citizen(stored, loaded) == stored

\* The entry of the first statement of worker w's handler.
FirstPc(w) ==
    IF w = "documents" THEN "docs_get_citizen"
    ELSE IF w = "register" THEN "reg_get_citizen"
    ELSE "send_get_citizen"

\* ------------------------------------------------------------ two operators
\* Two instances of the service, the source and the destination of a
\* transfer, each with its broker, Operator Connectivity (MINTIC) and the
\* Document Service.
Operators == {"src", "dst"}

Peer(o) == IF o = "src" THEN "dst" ELSE "src"

\* The destination as send_transfer's target_operator.
DstTarget ==
    [operator_id |-> "opA", operator_name |-> "Operator A", api_url |-> "https://a/receive"]

\* settings.TRANSFER_CONFIRMATION_URL of the source.
SrcConfirmUrl == "https://src/confirm"

\* What becomes of an HTTP request to the peer: it is served and answered,
\* it never arrives, or it is served and the answer does not come back in time.
Links == {"ok", "lost", "timeout"}

Wire(o, ev, arg) == [at |-> o, ev |-> ev, arg |-> arg]

\* The events of a handler run that an external service answers.
Answered ==
    {"unregister.citizen.requested", "register.citizen.requested",
     "documents.download.requested"}

Requests(fx, o) ==
    {Wire(o, fx[i].what, NoArg) :
        i \in {j \in 1..Len(fx) : /\ fx[j].k = "publish" /\ fx[j].res = "ok"
                                   /\ fx[j].what \in Answered}}

\* The status the view answers with: TransferReceiveView 201 or 400,
\* TransferConfirmView 200 or 400.
Answer(link, ok, success_code) ==
    IF link = "ok" THEN Response(IF ok THEN success_code ELSE 400) ELSE Raised

Init ==
    /\ db = [c \in CitizenIds |-> NoRows]
    /\ last = [op |-> "init", id |-> 0, arg |-> NoArg, ok |-> TRUE, fx |-> <<>>]
    /\ origin = [c \in CitizenIds |-> "none"]
    /\ hist = [c \in CitizenIds |-> <<>>]
    /\ snap = [c \in CitizenIds |-> NoRows]
    /\ gateRun = [c \in CitizenIds |-> 0]
    /\ queue = {}
    /\ disp = NoDelivery
    /\ tables = NoTables
    /\ procs = [p \in Procs |-> Idle]
    /\ scene = "none"
    /\ row = NoRows
    /\ wk = [w \in Workers |-> Resting]
    /\ site = [o \in Operators |-> NoRows]
    /\ net = {}

\* One handler run on citizen c: the rows it leaves replace the rows it loaded.
Run(op, tag, c, arg, res) ==
    LET created == ~db[c].cit.present /\ res.cit.present
        deleted == db[c].cit.present /\ ~res.cit.present
        received == op = "receive_transfer" /\ created
    IN /\ db' = [db EXCEPT ![c] = [cit |-> res.cit, aff |-> res.aff]]
       /\ last' = [op |-> op, id |-> c, arg |-> arg, ok |-> res.ok, fx |-> res.fx]
       /\ origin' = [origin EXCEPT ![c] =
                        IF received THEN "transfer"
                        ELSE IF created THEN "register"
                        ELSE IF deleted THEN "none" ELSE @]
       /\ snap' = [snap EXCEPT ![c] =
                      IF received THEN [cit |-> res.cit, aff |-> res.aff]
                      ELSE IF created \/ deleted THEN NoRows ELSE @]
       /\ hist' = [hist EXCEPT ![c] =
                      IF received THEN <<[op |-> tag, posts |-> ConfirmedTo(res.fx)]>>
                      ELSE IF created \/ deleted THEN <<>>
                      ELSE IF origin[c] # "transfer" THEN <<>>
                      ELSE IF @ = More \/ Len(@) >= MaxHist THEN More
                      ELSE Append(@, [op |-> tag, posts |-> ConfirmedTo(res.fx)])]
       /\ gateRun' = [gateRun EXCEPT ![c] =
                         IF op # "check_and_complete_transfer" THEN 0
                         ELSE IF @ > 0 THEN @ + 1
                         ELSE IF res.ok THEN 1 ELSE 0]
       /\ UNCHANGED <<tables, procs, scene, row, wk, site, net>>

\* A handler run that is called directly: an API call, or an event handler
\* given a well-formed payload.  disp describes a delivery only in the state
\* the delivery leaves.
Apply(op, tag, c, arg, res) ==
    Run(op, tag, c, arg, res) /\ disp' = NoDelivery /\ UNCHANGED queue

Register ==
    \E c \in CitizenIds, validate \in BOOLEAN, p1 \in BOOLEAN, p2 \in BOOLEAN :
        Apply("register_citizen", "register", c, [validate |-> validate],
              register_citizen(Rows(c), c, Env(p1, p2, Raised, validate)))

ReceiveTransfer ==
    \E c \in CitizenIds, url \in ConfirmUrls, raises \in ReceiveFaults, p1 \in BOOLEAN :
        Apply("receive_transfer", "receive", c, [confirmAPI |-> url],
              receive_transfer(Rows(c), c, url, raises, p1))

DocumentsReady ==
    \E c \in CitizenIds, p1 \in BOOLEAN, p2 \in BOOLEAN, http \in ConfirmResponses :
        Apply("handle_documents_ready", "documents.ready", c, NoArg,
              handle_documents_ready(Rows(c), c, Env(p1, p2, http, FALSE)))

RegisterCompleted ==
    \E c \in CitizenIds, code \in StatusCodes, p1 \in BOOLEAN, http \in ConfirmResponses :
        Apply("handle_register_citizen_completed",
              IF code = HTTP_CREATED THEN "register.completed.201"
              ELSE "register.completed.failed",
              c, [status_code |-> code],
              handle_register_citizen_completed(Rows(c), c, code, Env(p1, p1, http, FALSE)))

UnregisterCompleted ==
    \E c \in CitizenIds, success \in BOOLEAN, p1 \in PublishOutcomes, http \in PostResponses :
        Apply("handle_unregister_citizen_completed",
              IF success THEN "unregister.completed.ok" ELSE "unregister.completed.failed",
              c, [success |-> success],
              handle_unregister_citizen_completed(Rows(c), c, success,
                                                  Env(p1, p1, http, FALSE)))

SendTransfer ==
    \E c \in CitizenIds, t \in Targets, p1 \in BOOLEAN :
        Apply("send_transfer", "send", c, [target_operator |-> t], send_transfer(Rows(c), c, t, p1))

TransferConfirmation ==
    \E c \in CitizenIds, req \in ReqStatuses, p1 \in BOOLEAN :
        Apply("handle_transfer_confirmation", "confirm", c, [req_status |-> req],
              handle_transfer_confirmation(Rows(c), c, req, p1))

DeleteAffiliation ==
    \E c \in CitizenIds, p1 \in BOOLEAN :
        Apply("delete_affiliation", "delete", c, NoArg, delete_affiliation(Rows(c), c, p1))

\* The gate called on its own, as the service's callers and tests may.
CheckAndComplete ==
    \E c \in CitizenIds, p1 \in BOOLEAN, http \in ConfirmResponses :
        /\ gateRun[c] < MaxGateRun
        /\ Apply("check_and_complete_transfer", "check", c, NoArg,
                 check_and_complete_transfer(Rows(c), c, http, p1))

\* A producer (Operator Connectivity, the Document Service, or anything
\* that can write to the queue) publishes a message.
Enqueue ==
    \E m \in Messages :
        /\ Cardinality(queue) < MaxQueue
        /\ m \notin queue
        /\ queue' = queue \cup {m}
        /\ disp' = NoDelivery
        /\ UNCHANGED <<db, last, origin, hist, snap, gateRun, tables, procs, scene, row, wk, site, net>>

\* The broker delivers a message whose body is no JSON object.
DeliverMalformed ==
    \E m \in queue :
        /\ m.body \in Malformed
        /\ LET cb == callback(m, FALSE)
           IN /\ disp' = Delivery(m, cb, m.body = "not_object")
              /\ queue' = Settle(queue, m, cb.calls)
        /\ UNCHANGED <<db, last, origin, hist, snap, gateRun, tables, procs, scene, row, wk, site, net>>

\* The broker delivers an event; the callback runs the handler of its queue.
DeliverEvent ==
    \E m \in queue, dbfail \in BOOLEAN :
        /\ m.body = "object"
        /\ \E env \in EnvsOf(m.queue) :
              LET h == handler_func(m, Rows(m.id), env, dbfail)
                  cb == callback(m, h.raised)
              IN /\ Run(HandlerOf(m.queue), TagOf(m), m.id, m.arg, h.res)
                 /\ disp' = Delivery(m, cb, h.raised)
                 /\ queue' = Settle(queue, m, cb.calls)

Step(p, q) == procs' = [procs EXCEPT ![p] = q]

Quiet == UNCHANGED <<db, last, origin, hist, snap, gateRun, queue, disp, scene, row, wk, site, net>>

\* A client calls register_citizen or receive_transfer.
CreatorCall ==
    \E p \in Creators, kind \in CreatorKinds :
        \E fault \in CreateFaults(kind) :
            /\ procs[p].pc = "idle"
            /\ Step(p, [procs[p] EXCEPT !.pc = "check", !.kind = kind, !.fault = fault])
            /\ UNCHANGED tables /\ Quiet

\* existing_citizen = Citizen.objects.filter(citizen_id=citizen_id).first()
\* A row a concurrent call has just inserted is unverified and pending, which
\* register_citizen rejects as receive_transfer rejects any row.
CreatorCheck ==
    \E p \in Creators :
        /\ procs[p].pc = "check"
        /\ Step(p, IF tables.citizens # {}
                   THEN [procs[p] EXCEPT !.pc = "done", !.err = "exists"]
                   ELSE [procs[p] EXCEPT !.pc = "create_citizen"])
        /\ UNCHANGED tables /\ Quiet

\* citizen = Citizen.objects.create(...)
CreatorCreateCitizen ==
    \E p \in Creators :
        /\ procs[p].pc = "create_citizen"
        /\ LET r == citizens_create(tables, p)
           IN /\ tables' = r.t
              /\ Step(p, IF r.raised
                         THEN [procs[p] EXCEPT !.pc = "except", !.err = "IntegrityError"]
                         ELSE [procs[p] EXCEPT !.pc = "create_affiliation", !.citizen = p])
        /\ Quiet

\* Affiliation.objects.create(citizen=citizen, ...)
CreatorCreateAffiliation ==
    \E p \in Creators :
        /\ procs[p].pc = "create_affiliation"
        /\ LET r == IF procs[p].fault = "affiliation"
                    THEN [raised |-> TRUE, t |-> tables]
                    ELSE affiliations_create(tables, p, procs[p].citizen)
           IN /\ tables' = r.t
              /\ Step(p, IF r.raised
                         THEN [procs[p] EXCEPT !.pc = "except", !.err = "affiliation"]
                         ELSE [procs[p] EXCEPT !.pc = "publish"])
        /\ Quiet

\* The publish and the return of success.
CreatorPublish ==
    \E p \in Creators :
        /\ procs[p].pc = "publish"
        /\ Step(p, IF procs[p].fault = "publish"
                   THEN [procs[p] EXCEPT !.pc = "except", !.err = "publish"]
                   ELSE [procs[p] EXCEPT !.pc = "done", !.ok = TRUE])
        /\ UNCHANGED tables /\ Quiet

\* except Exception: the compensating delete, if any, and the failure result.
CreatorExcept ==
    \E p \in Creators :
        /\ procs[p].pc = "except"
        /\ tables' = rollback(tables, procs[p].kind, procs[p].citizen)
        /\ Step(p, [procs[p] EXCEPT !.pc = "done"])
        /\ Quiet

\* The source operator calls handle_transfer_confirmation with req_status 1.
ConfirmCall ==
    /\ procs[Confirmer].pc = "idle"
    /\ Step(Confirmer, [procs[Confirmer] EXCEPT !.pc = "get_citizen",
                                                !.kind = "handle_transfer_confirmation"])
    /\ UNCHANGED tables /\ Quiet

\* citizen = Citizen.objects.get(citizen_id=citizen_id)
ConfirmGetCitizen ==
    /\ procs[Confirmer].pc = "get_citizen"
    /\ \/ /\ tables.citizens = {}
          /\ Step(Confirmer, [procs[Confirmer] EXCEPT !.pc = "done", !.err = "DoesNotExist"])
       \/ \E pk \in tables.citizens :
             Step(Confirmer, [procs[Confirmer] EXCEPT !.pc = "get_affiliation", !.citizen = pk])
    /\ UNCHANGED tables /\ Quiet

\* affiliation = citizen.affiliation
ConfirmGetAffiliation ==
    /\ procs[Confirmer].pc = "get_affiliation"
    /\ Step(Confirmer, IF HasAffiliation(tables, procs[Confirmer].citizen)
                       THEN [procs[Confirmer] EXCEPT !.pc = "save_affiliation"]
                       ELSE [procs[Confirmer] EXCEPT !.pc = "done", !.err = "no_affiliation"])
    /\ UNCHANGED tables /\ Quiet

\* affiliation.save() with status TRANSFERRED: if the row is gone the save
\* inserts it again, which the foreign key to the deleted citizen rejects.
ConfirmSaveAffiliation ==
    /\ procs[Confirmer].pc = "save_affiliation"
    /\ Step(Confirmer, IF HasAffiliation(tables, procs[Confirmer].citizen)
                       THEN [procs[Confirmer] EXCEPT !.pc = "delete_affiliation"]
                       ELSE [procs[Confirmer] EXCEPT !.pc = "done", !.err = "IntegrityError"])
    /\ UNCHANGED tables /\ Quiet

\* affiliation.delete()
ConfirmDeleteAffiliation ==
    /\ procs[Confirmer].pc = "delete_affiliation"
    /\ tables' = affiliation_delete(tables, procs[Confirmer].citizen)
    /\ Step(Confirmer, [procs[Confirmer] EXCEPT !.pc = "delete_citizen"])
    /\ Quiet

\* citizen.delete() and the return of success.
ConfirmDeleteCitizen ==
    /\ procs[Confirmer].pc = "delete_citizen"
    /\ tables' = citizen_delete(tables, procs[Confirmer].citizen)
    /\ Step(Confirmer, [procs[Confirmer] EXCEPT !.pc = "done", !.ok = TRUE])
    /\ Quiet

At1(w, pc) == w \in WorkersOf(scene) /\ wk[w].pc = pc

Go(w, q) == wk' = [wk EXCEPT ![w] = q]

Untouched ==
    UNCHANGED <<db, last, origin, hist, snap, gateRun, queue, disp, tables, procs, site, net>>

\* The citizen the workers will meet: an incoming transfer under way, or an
\* affiliated citizen.
Arrange ==
    /\ scene = "none"
    /\ \/ \E url \in ConfirmUrls : scene' = "gate" /\ row' = IncomingRows(url)
       \/ scene' = "send" /\ row' = AffiliatedRows
    /\ UNCHANGED wk /\ Untouched

\* An event is delivered to its consumer thread, or a request to the API.
WorkerStart ==
    \E w \in Workers :
        /\ At1(w, "idle")
        /\ Go(w, [wk[w] EXCEPT !.pc = FirstPc(w)])
        /\ UNCHANGED <<scene, row>> /\ Untouched

\* complete_transfer_after_documents: citizen = Citizen.objects.get(...)
DocsGetCitizen ==
    /\ At1("documents", "docs_get_citizen")
    /\ Go("documents", [wk["documents"] EXCEPT !.pc = "docs_get_affiliation",
                                               !.citizen = row.cit])
    /\ UNCHANGED <<scene, row>> /\ Untouched

\* affiliation = citizen.affiliation
DocsGetAffiliation ==
    /\ At1("documents", "docs_get_affiliation")
    /\ Go("documents", [wk["documents"] EXCEPT !.pc = "docs_save", !.affiliation = row.aff])
    /\ UNCHANGED <<scene, row>> /\ Untouched

\* affiliation.documents_ready = True; affiliation.save()
DocsSave ==
    /\ At1("documents", "docs_save")
    /\ LET a == [wk["documents"].affiliation EXCEPT !.documents_ready = TRUE]
       IN /\ row' = [row EXCEPT !.aff = a]
          /\ Go("documents", [wk["documents"] EXCEPT !.pc = "docs_publish", !.affiliation = a])
    /\ UNCHANGED scene /\ Untouched

\* publish_register_citizen_requested(...), then the call of the gate.
DocsPublish ==
    /\ At1("documents", "docs_publish")
    /\ Go("documents", [wk["documents"] EXCEPT
                            !.pc = "gate_get_citizen",
                            !.fx = Append(@, "register.citizen.requested")])
    /\ UNCHANGED <<scene, row>> /\ Untouched

\* handle_register_citizen_completed: citizen = Citizen.objects.filter(...).first()
RegGetCitizen ==
    /\ At1("register", "reg_get_citizen")
    /\ Go("register", [wk["register"] EXCEPT !.pc = "reg_save", !.citizen = row.cit])
    /\ UNCHANGED <<scene, row>> /\ Untouched

\* citizen.is_verified = True; ...; citizen.save()
RegSave ==
    /\ At1("register", "reg_save")
    /\ LET c == [wk["register"].citizen EXCEPT
                    !.is_verified = TRUE,
                    !.verification_status = "verified",
                    !.verification_message = "Citizen successfully registered in MINTIC"]
       IN /\ row' = [row EXCEPT !.cit = c]
          /\ Go("register", [wk["register"] EXCEPT !.pc = "reg_get_affiliation", !.citizen = c])
    /\ UNCHANGED scene /\ Untouched

\* affiliation = Affiliation.objects.filter(citizen=citizen).first(), and the
\* branch on its status.
RegGetAffiliation ==
    /\ At1("register", "reg_get_affiliation")
    /\ Go("register", [wk["register"] EXCEPT
                           !.pc = IF row.aff.status = "TRANSFERRING"
                                  THEN "gate_get_citizen" ELSE "reg_save_affiliation",
                           !.affiliation = row.aff])
    /\ UNCHANGED <<scene, row>> /\ Untouched

\* affiliation.status = "AFFILIATED"; affiliation.save()
RegSaveAffiliation ==
    /\ At1("register", "reg_save_affiliation")
    /\ LET a == [wk["register"].affiliation EXCEPT !.status = "AFFILIATED"]
       IN /\ row' = [row EXCEPT !.aff = a]
          /\ Go("register", [wk["register"] EXCEPT !.pc = "done", !.ok = TRUE,
                                                   !.affiliation = a])
    /\ UNCHANGED scene /\ Untouched

\* check_and_complete_transfer: citizen = Citizen.objects.get(...)
GateGetCitizen ==
    \E w \in {"documents", "register"} :
        /\ At1(w, "gate_get_citizen")
        /\ Go(w, [wk[w] EXCEPT !.pc = "gate_get_affiliation",
                               !.citizen = gate_citizen(row.cit, wk[w].citizen)])
        /\ UNCHANGED <<scene, row>> /\ Untouched

\* affiliation = citizen.affiliation, the status test and the test of the
\* two prerequisites.
GateGetAffiliation ==
    \E w \in {"documents", "register"} :
        /\ At1(w, "gate_get_affiliation")
        /\ Go(w, [wk[w] EXCEPT
                      !.pc = IF /\ row.aff.status = "TRANSFERRING"
                                /\ row.aff.documents_ready
                                /\ wk[w].citizen.is_verified
                             THEN "gate_save_citizen" ELSE "done",
                      !.affiliation = row.aff])
        /\ UNCHANGED <<scene, row>> /\ Untouched

\* citizen.is_registered = True; citizen.save()
GateSaveCitizen ==
    \E w \in {"documents", "register"} :
        /\ At1(w, "gate_save_citizen")
        /\ LET c == [wk[w].citizen EXCEPT !.is_registered = TRUE]
           IN /\ row' = [row EXCEPT !.cit = c]
              /\ Go(w, [wk[w] EXCEPT !.pc = "gate_save_affiliation", !.citizen = c])
        /\ UNCHANGED scene /\ Untouched

\* affiliation.status = "AFFILIATED"; transfer_completed_at; affiliation.save()
GateSaveAffiliation ==
    \E w \in {"documents", "register"} :
        /\ At1(w, "gate_save_affiliation")
        /\ LET a == [wk[w].affiliation EXCEPT !.status = "AFFILIATED",
                                              !.transfer_completed_at = "set"]
           IN /\ row' = [row EXCEPT !.aff = a]
              /\ Go(w, [wk[w] EXCEPT !.pc = "gate_notify", !.affiliation = a])
        /\ UNCHANGED scene /\ Untouched

\* _send_confirmation if there is a confirmation URL, then
\* publish_affiliation_created, and the return of success.
GateNotify ==
    \E w \in {"documents", "register"} :
        /\ At1(w, "gate_notify")
        /\ Go(w, [wk[w] EXCEPT
                      !.pc = "done", !.ok = TRUE,
                      !.fx = @ \o (IF Truthy(wk[w].affiliation.transfer_confirmation_url)
                                   THEN <<"confirm">> ELSE <<>>)
                               \o <<"affiliation.created">>])
        /\ UNCHANGED <<scene, row>> /\ Untouched

\* send_transfer: citizen = Citizen.objects.get(...)
SendGetCitizen ==
    \E w \in {"send1", "send2"} :
        /\ At1(w, "send_get_citizen")
        /\ Go(w, [wk[w] EXCEPT !.pc = "send_get_affiliation", !.citizen = row.cit])
        /\ UNCHANGED <<scene, row>> /\ Untouched

\* affiliation = citizen.affiliation, and the test of its status.
SendGetAffiliation ==
    \E w \in {"send1", "send2"} :
        /\ At1(w, "send_get_affiliation")
        /\ Go(w, [wk[w] EXCEPT
                      !.pc = IF row.aff.status = "AFFILIATED" THEN "send_save" ELSE "done",
                      !.affiliation = row.aff])
        /\ UNCHANGED <<scene, row>> /\ Untouched

\* affiliation.status = "TRANSFERRING" with the target's columns; save()
SendSave ==
    \E w \in {"send1", "send2"} :
        /\ At1(w, "send_save")
        /\ LET t == TargetOf(w)
               a == [wk[w].affiliation EXCEPT
                        !.status = "TRANSFERRING",
                        !.transfer_destination_operator_id = t.operator_id,
                        !.transfer_destination_operator_name = t.operator_name,
                        !.transfer_destination_api_url = t.api_url,
                        !.transfer_started_at = "set"]
           IN /\ row' = [row EXCEPT !.aff = a]
              /\ Go(w, [wk[w] EXCEPT !.pc = "send_publish", !.affiliation = a])
        /\ UNCHANGED scene /\ Untouched

\* publish_unregister_citizen_requested(...) and the return of success.
SendPublish ==
    \E w \in {"send1", "send2"} :
        /\ At1(w, "send_publish")
        /\ Go(w, [wk[w] EXCEPT !.pc = "done", !.ok = TRUE,
                               !.fx = Append(@, "unregister.citizen.requested")])
        /\ UNCHANGED <<scene, row>> /\ Untouched

Apart ==
    UNCHANGED <<db, last, origin, hist, snap, gateRun, queue, disp, tables, procs,
                scene, row, wk>>

RowsAt(res) == [cit |-> res.cit, aff |-> res.aff]

\* The citizen is registered and verified at the source.
FedArrange ==
    /\ site = [o \in Operators |-> NoRows]
    /\ site' = [site EXCEPT !["src"] = AffiliatedRows]
    /\ UNCHANGED net /\ Apart

\* POST /transfer/send at the source.
FedSendTransfer ==
    \E pub \in BOOLEAN :
        LET res == send_transfer(site["src"], 111, DstTarget, pub)
        IN /\ site["src"].cit.present
           /\ site' = [site EXCEPT !["src"] = RowsAt(res)]
           /\ net' = net \cup Requests(res.fx, "src")
           /\ Apart

\* DELETE of the affiliation at the source.
FedDeleteAffiliation ==
    \E pub \in BOOLEAN :
        LET res == delete_affiliation(site["src"], 111, pub)
        IN /\ site["src"].cit.present
           /\ site' = [site EXCEPT !["src"] = RowsAt(res)]
           /\ net' = net \cup Requests(res.fx, "src")
           /\ Apart

\* Operator Connectivity answers a request with the completed event.
FedConnectivity ==
    \E m \in net :
        /\ \/ /\ m.ev = "unregister.citizen.requested"
              /\ \E success \in BOOLEAN :
                    net' = (net \ {m})
                             \cup {Wire(m.at, "unregister.citizen.completed",
                                        [success |-> success])}
           \/ /\ m.ev = "register.citizen.requested"
              /\ \E code \in StatusCodes :
                    net' = (net \ {m})
                             \cup {Wire(m.at, "register.citizen.completed",
                                        [status_code |-> code])}
        /\ UNCHANGED site /\ Apart

\* The Document Service downloads the files and reports them ready.
FedDocuments ==
    \E m \in net :
        /\ m.ev = "documents.download.requested"
        /\ net' = (net \ {m}) \cup {Wire(m.at, "documents.ready", NoArg)}
        /\ UNCHANGED site /\ Apart

\* unregister.citizen.completed is delivered and acked.  For an outgoing
\* transfer the handler POSTs to the peer, whose TransferReceiveView runs
\* receive_transfer while the handler waits for the answer.
FedUnregisterCompleted ==
    \E m \in net, link \in Links :
        /\ m.ev = "unregister.citizen.completed"
        /\ LET o == m.at
               r == site[o]
               posts == /\ m.arg.success
                        /\ r.cit.present /\ r.aff.present
                        /\ r.aff.status = "TRANSFERRING"
                        /\ Truthy(r.aff.transfer_destination_api_url)
               served == posts /\ link # "lost"
               rcv == receive_transfer(site[Peer(o)], 111, SrcConfirmUrl, "none", TRUE)
               http == IF posts THEN Answer(link, rcv.ok, HTTP_CREATED) ELSE Raised
               res == handle_unregister_citizen_completed(r, 111, m.arg.success,
                                                          Env("ok", "ok", http, FALSE))
           IN /\ site' = [site EXCEPT ![o] = RowsAt(res),
                                      ![Peer(o)] = IF served THEN RowsAt(rcv) ELSE @]
              /\ net' = ((net \ {m}) \cup Requests(res.fx, o))
                           \cup (IF served THEN Requests(rcv.fx, Peer(o)) ELSE {})
        /\ Apart

\* What a completing gate run at o does to the peer: its confirmation POST
\* makes the peer's TransferConfirmView run handle_transfer_confirmation.
Confirmed(o, res, link) ==
    LET served == ConfirmedTo(res.fx) # <<>> /\ link # "lost"
        cnf == handle_transfer_confirmation(site[Peer(o)], 111, 1, TRUE)
    IN [site EXCEPT ![o] = RowsAt(res),
                    ![Peer(o)] = IF served THEN RowsAt(cnf) ELSE @]

\* documents.ready is delivered and acked.
FedDocumentsReady ==
    \E m \in net, link \in Links :
        /\ m.ev = "documents.ready"
        /\ LET o == m.at
               cnf == handle_transfer_confirmation(site[Peer(o)], 111, 1, TRUE)
               res == handle_documents_ready(site[o], 111,
                                             Env(TRUE, TRUE, Answer(link, cnf.ok, HTTP_OK), FALSE))
           IN /\ site' = Confirmed(o, res, link)
              /\ net' = (net \ {m}) \cup Requests(res.fx, o)
        /\ Apart

\* register.citizen.completed is delivered and acked.
FedRegisterCompleted ==
    \E m \in net, link \in Links :
        /\ m.ev = "register.citizen.completed"
        /\ LET o == m.at
               cnf == handle_transfer_confirmation(site[Peer(o)], 111, 1, TRUE)
               res == handle_register_citizen_completed(
                          site[o], 111, m.arg.status_code,
                          Env(TRUE, TRUE, Answer(link, cnf.ok, HTTP_OK), FALSE))
           IN /\ site' = Confirmed(o, res, link)
              /\ net' = (net \ {m}) \cup Requests(res.fx, o)
        /\ Apart

Next ==
    \/ Register
    \/ ReceiveTransfer
    \/ DocumentsReady
    \/ RegisterCompleted
    \/ UnregisterCompleted
    \/ SendTransfer
    \/ TransferConfirmation
    \/ DeleteAffiliation
    \/ CheckAndComplete

Spec == Init /\ [][Next]_vars

\* The service with its inbound events arriving through the broker.
NextDispatch ==
    \/ Register
    \/ SendTransfer
    \/ TransferConfirmation
    \/ DeleteAffiliation
    \/ Enqueue
    \/ DeliverMalformed
    \/ DeliverEvent

SpecDispatch == Init /\ [][NextDispatch]_vars

\* The broker keeps delivering what the queue holds: basic_consume hands the
\* next message to the callback as soon as the previous one is settled.
SpecDispatchFair == SpecDispatch /\ WF_vars(DeliverMalformed) /\ WF_vars(DeliverEvent)

\* Two creating calls and a transfer confirmation racing on one citizen_id.
NextConcurrent ==
    \/ CreatorCall
    \/ CreatorCheck
    \/ CreatorCreateCitizen
    \/ CreatorCreateAffiliation
    \/ CreatorPublish
    \/ CreatorExcept
    \/ ConfirmCall
    \/ ConfirmGetCitizen
    \/ ConfirmGetAffiliation
    \/ ConfirmSaveAffiliation
    \/ ConfirmDeleteAffiliation
    \/ ConfirmDeleteCitizen

SpecConcurrent == Init /\ [][NextConcurrent]_vars

\* The consumer threads, or two requests, working on one citizen statement by
\* statement.
DocumentsWorker == DocsGetCitizen \/ DocsGetAffiliation \/ DocsSave \/ DocsPublish

RegisterWorker == RegGetCitizen \/ RegSave \/ RegGetAffiliation \/ RegSaveAffiliation

Gate == GateGetCitizen \/ GateGetAffiliation \/ GateSaveCitizen \/ GateSaveAffiliation \/ GateNotify

Sender == SendGetCitizen \/ SendGetAffiliation \/ SendSave \/ SendPublish

NextWorkers ==
    \/ Arrange
    \/ WorkerStart
    \/ DocumentsWorker
    \/ RegisterWorker
    \/ Gate
    \/ Sender

SpecWorkers == Init /\ [][NextWorkers]_vars

\* A transfer between two operators and their external services.
NextFederation ==
    \/ FedArrange
    \/ FedSendTransfer
    \/ FedDeleteAffiliation
    \/ FedConnectivity
    \/ FedDocuments
    \/ FedUnregisterCompleted
    \/ FedDocumentsReady
    \/ FedRegisterCompleted

SpecFederation == Init /\ [][NextFederation]_vars

\* Fair event delivery: the external services answer every request and the
\* brokers deliver every event.
SpecFederationFair ==
    /\ SpecFederation
    /\ WF_vars(FedConnectivity) /\ WF_vars(FedDocuments)
    /\ WF_vars(FedUnregisterCompleted)
    /\ WF_vars(FedDocumentsReady) /\ WF_vars(FedRegisterCompleted)

\* Every delivered event and every request is handled to its end: a thread
\* that can take its next statement does.
SpecWorkersFair == SpecWorkers /\ WF_vars(NextWorkers)

\* ------------------------------------------------------------ vocabulary of the claims
Cit(c) == db[c].cit
Aff(c) == db[c].aff

\* Positions in fx of the effects of kind k on `what`.
At(fx, k, what) == {i \in 1..Len(fx) : fx[i].k = k /\ fx[i].what = what}
Emitted(fx, ev) == At(fx, "publish", ev) # {}
EmittedOk(fx, ev) == \E i \in At(fx, "publish", ev) : fx[i].res = "ok"

Ran(l, op, c) == l.op = op /\ l.id = c

DestinationCleared(aff) ==
    /\ aff.transfer_destination_operator_id = None
    /\ aff.transfer_destination_operator_name = None
    /\ aff.transfer_destination_api_url = None

\* The step runs the gate on c with both prerequisites in place: called on
\* its own, or by the handler that has just supplied the missing one.
GateFires(c) ==
    /\ Aff(c).present /\ Aff(c).status = "TRANSFERRING"
    /\ \/ /\ Ran(last', "check_and_complete_transfer", c)
          /\ Aff(c).documents_ready /\ Cit(c).is_verified
       \/ /\ Ran(last', "handle_documents_ready", c)
          /\ Cit(c).is_verified
       \/ /\ Ran(last', "handle_register_citizen_completed", c)
          /\ last'.arg = [status_code |-> HTTP_CREATED]
          /\ Aff(c).documents_ready

\* ------------------------------------------------------------ C1
\* C1: a citizen created by receive_transfer is AFFILIATED only with both
\* prerequisites: documents_ready and is_verified.
C1_DualCondition ==
    \A c \in CitizenIds :
        (origin[c] = "transfer" /\ Aff(c).present /\ Aff(c).status = "AFFILIATED")
            => (Aff(c).documents_ready /\ Cit(c).is_verified)

\* ------------------------------------------------------------ C2
\* What every completing gate run does, whatever the callback answers.
Completes(c) ==
    /\ Cit(c)'.present /\ Cit(c)'.is_registered
    /\ Aff(c)'.present /\ Aff(c)'.status = "AFFILIATED"
    /\ Emitted(last'.fx, "affiliation.created")
    /\ \A i \in At(last'.fx, "publish", "affiliation.created") :
           \A j \in 1..Len(last'.fx) : last'.fx[j].k = "confirm" => j < i

\* The confirmation: one POST, of req_status 1, to the stored URL.
OneConfirmation(c) ==
    /\ ConfirmedTo(last'.fx) = <<Aff(c).transfer_confirmation_url>>
    /\ \A i \in 1..Len(last'.fx) : last'.fx[i].k = "confirm" => last'.fx[i].arg = 1

C3_Idempotent ==
    [][\A c \in CitizenIds :
          (Ran(last, "check_and_complete_transfer", c)
              /\ Ran(last', "check_and_complete_transfer", c))
             => (db'[c] = db[c] /\ last'.fx = <<>> /\ ~last'.ok)]_vars

\* C3 witness: the gate completed a transfer and was called again.
C3_Witness ==
    \E c \in CitizenIds :
        /\ gateRun[c] >= 2
        /\ Ran(last, "check_and_complete_transfer", c)
        /\ Aff(c).status = "AFFILIATED"

\* ------------------------------------------------------------ C4
HistOps(c) == [i \in 1..Len(hist[c]) |-> hist[c][i].op]
DocsThenReg == <<"receive", "documents.ready", "register.completed.201">>
RegThenDocs == <<"receive", "register.completed.201", "documents.ready">>

RowsOf(res) == [cit |-> res.cit, aff |-> res.aff]
GateEnvs == {Env(p1, p2, http, FALSE) : p1 \in BOOLEAN, p2 \in BOOLEAN, http \in ConfirmResponses}

\* The two handlers applied to rows s in either order.
DocsFirst(s, c, e1, e2) ==
    RowsOf(handle_register_citizen_completed(
               RowsOf(handle_documents_ready(s, c, e1)), c, HTTP_CREATED, e2))
RegFirst(s, c, e1, e2) ==
    RowsOf(handle_documents_ready(
               RowsOf(handle_register_citizen_completed(s, c, HTTP_CREATED, e1)), c, e2))

Finalised(c) ==
    /\ Aff(c).status = "AFFILIATED" /\ Aff(c).documents_ready
    /\ Cit(c).is_registered /\ Cit(c).is_verified

\* C4: from the rows receive_transfer created, documents.ready then
\* register.completed(201) leaves the rows that the reverse order leaves, and
\* they are the finalised ones, whatever the external calls answer.
C4_OrderIndependent ==
    \A c \in CitizenIds :
        /\ HistOps(c) = DocsThenReg =>
              /\ Finalised(c)
              /\ \A e1 \in GateEnvs, e2 \in GateEnvs : db[c] = RegFirst(snap[c], c, e1, e2)
        /\ HistOps(c) = RegThenDocs =>
              /\ Finalised(c)
              /\ \A e1 \in GateEnvs, e2 \in GateEnvs : db[c] = DocsFirst(snap[c], c, e1, e2)

\* C4 witness: verification arrived first, documents second, and the transfer completed.
C4_Witness ==
    \E c \in CitizenIds : HistOps(c) = RegThenDocs /\ Finalised(c)

\* ------------------------------------------------------------ C5
RECURSIVE PostsOf(_)
PostsOf(h) == IF h = <<>> THEN <<>> ELSE Head(h).posts \o PostsOf(Tail(h))

StoredCallback(c) == snap[c].aff.transfer_confirmation_url

\* C5 as stated: receive_transfer, documents.ready, register.completed(201)
\* ends AFFILIATED and registered with exactly one confirmation POST in the
\* whole sequence, to the callback URL receive_transfer stored.
C5_RoundTripOnePost ==
    \A c \in CitizenIds :
        HistOps(c) = DocsThenReg =>
            /\ Aff(c).status = "AFFILIATED" /\ Cit(c).is_registered
            /\ PostsOf(hist[c]) = <<StoredCallback(c)>>

\* C5 amended: exactly one POST when the stored callback URL is not empty,
\* none when it is empty or null.
C5_RoundTrip ==
    \A c \in CitizenIds :
        HistOps(c) = DocsThenReg =>
            /\ Aff(c).status = "AFFILIATED" /\ Cit(c).is_registered
            /\ PostsOf(hist[c]) = IF Truthy(StoredCallback(c))
                                  THEN <<StoredCallback(c)>> ELSE <<>>

\* C5 witness: the round trip ended with its one POST sent by the last step.
C5_Witness ==
    \E c \in CitizenIds :
        /\ HistOps(c) = DocsThenReg
        /\ Truthy(StoredCallback(c))
        /\ hist[c][3].posts = <<StoredCallback(c)>>
        /\ Aff(c).status = "AFFILIATED"

\* ------------------------------------------------------------ C6
WasAffiliated(c) == Cit(c).present /\ Aff(c).present /\ Aff(c).status = "AFFILIATED"

RecordsTarget(aff, t) ==
    /\ aff.status = "TRANSFERRING"
    /\ aff.transfer_destination_operator_id = t.operator_id
    /\ aff.transfer_destination_operator_name = t.operator_name
    /\ aff.transfer_destination_api_url = t.api_url

Rejected(c) ==
    /\ ~last'.ok
    /\ ~Emitted(last'.fx, "unregister.citizen.requested")
    /\ db'[c] = db[c]

\* C6 as stated: send_transfer succeeds, recording the target, if and only
\* if the status was AFFILIATED; in every other status it is rejected, emits
\* nothing and changes nothing.
C6_SucceedsIffAffiliated ==
    [][\A c \in CitizenIds :
          Ran(last', "send_transfer", c) =>
             /\ last'.ok <=> WasAffiliated(c)
             /\ last'.ok => RecordsTarget(Aff(c)', last'.arg.target_operator)
             /\ ~WasAffiliated(c) => Rejected(c)]_vars

\* C6 amended: it succeeds if and only if the status was AFFILIATED and the
\* emission of unregister.requested succeeded.
C6_SendTransferGuard ==
    [][\A c \in CitizenIds :
          Ran(last', "send_transfer", c) =>
             /\ last'.ok <=> (WasAffiliated(c)
                               /\ EmittedOk(last'.fx, "unregister.citizen.requested"))
             /\ last'.ok => RecordsTarget(Aff(c)', last'.arg.target_operator)
             /\ ~WasAffiliated(c) => Rejected(c)]_vars

\* C6 witness: a second send_transfer, to another target, was rejected while
\* the first one is in progress.
C6_Witness ==
    \E c \in CitizenIds :
        /\ Ran(last, "send_transfer", c) /\ ~last.ok
        /\ Aff(c).present /\ Aff(c).status = "TRANSFERRING"
        /\ Aff(c).transfer_destination_operator_id # None
        /\ Aff(c).transfer_destination_operator_id # last.arg.target_operator.operator_id

\* ------------------------------------------------------------ C7
\* C7: send_transfer followed by unregister.completed(success = false)
\* leaves the affiliation AFFILIATED with the three destination columns
\* null and pending_deletion false.
C7_RollbackSymmetry ==
    [][\A c \in CitizenIds :
          (Ran(last, "send_transfer", c) /\ last.ok
              /\ Ran(last', "handle_unregister_citizen_completed", c)
              /\ last'.arg = [success |-> FALSE])
             => /\ Aff(c)'.present /\ Aff(c)'.status = "AFFILIATED"
                /\ DestinationCleared(Aff(c)')
                /\ ~Cit(c)'.pending_deletion]_vars

\* ------------------------------------------------------------ C8
\* C8: when send_transfer fails to emit unregister.requested it returns
\* failure and leaves the affiliation AFFILIATED with the three destination
\* columns cleared.
C8_EmitFailureRollsBack ==
    \A c \in CitizenIds :
        (Ran(last, "send_transfer", c)
            /\ Emitted(last.fx, "unregister.citizen.requested")
            /\ ~EmittedOk(last.fx, "unregister.citizen.requested"))
           => /\ ~last.ok
              /\ Aff(c).present /\ Aff(c).status = "AFFILIATED"
              /\ DestinationCleared(Aff(c))

C10_FailedConfirmationRollsBack ==
    [][\A c \in CitizenIds :
          (Ran(last', "handle_transfer_confirmation", c) /\ last'.arg = [req_status |-> 0]
              /\ Aff(c).present /\ Aff(c).status = "TRANSFERRING")
             => /\ Cit(c)'.present
                /\ Aff(c)'.present /\ Aff(c)'.status = "AFFILIATED"
                /\ DestinationCleared(Aff(c)')
                /\ ~Emitted(last'.fx, "user.transferred")]_vars

\* ------------------------------------------------------------ C11
Created(fx) == {i \in 1..Len(fx) : fx[i].k = "create"}

\* C11: receive_transfer for a citizen id that already exists, in any status,
\* is rejected, leaves the Citizen and the Affiliation as they were, creates
\* no row and emits no documents.download.requested; so two calls with the
\* same id leave the one Citizen row the first call created.
C11_DuplicateRejected ==
    [][\A c \in CitizenIds :
          (Ran(last', "receive_transfer", c) /\ Cit(c).present)
             => /\ ~last'.ok
                /\ db'[c] = db[c]
                /\ Created(last'.fx) = {}
                /\ ~Emitted(last'.fx, "documents.download.requested")]_vars

\* C11 witness: receive_transfer was called twice in a row with the same id;
\* the second call was rejected and the rows of the first are in place.
C11_Witness ==
    \E c \in CitizenIds :
        /\ Ran(last, "receive_transfer", c) /\ ~last.ok /\ last.fx = <<>>
        /\ HistOps(c) = <<"receive", "receive">>
        /\ db[c] = snap[c] /\ Cit(c).present

\* ------------------------------------------------------------ C12
\* C12: when receive_transfer returns failure for an id that did not exist,
\* no Citizen and no Affiliation of that id exists afterwards; when it
\* returns success, documents.download.requested has been emitted.
C12_NoOrphans ==
    [][\A c \in CitizenIds :
          (Ran(last', "receive_transfer", c) /\ ~Cit(c).present)
             => /\ ~last'.ok => db'[c] = NoRows
                /\ last'.ok => EmittedOk(last'.fx, "documents.download.requested")]_vars

AlreadyRegistered(cit) ==
    cit.present /\ (cit.is_verified \/ cit.verification_status \in {"verified", "pending"})

RegisteredPending(c) ==
    /\ Cit(c)'.present /\ Cit(c)'.is_registered /\ ~Cit(c)'.is_verified
    /\ Cit(c)'.verification_status = "pending"
    /\ Aff(c)'.present /\ Aff(c)'.status = "PENDING"

\* C14: register_citizen is rejected, changing nothing, exactly when the
\* citizen exists and is verified or pending, or the external existence check
\* is positive; in every other case, an existing citizen whose
\* verification failed included, it succeeds and leaves a registered,
\* unverified, pending Citizen with a PENDING Affiliation.
C14_RegisterGuard ==
    [][\A c \in CitizenIds :
          Ran(last', "register_citizen", c) =>
             IF AlreadyRegistered(Cit(c)) \/ last'.arg.validate
             THEN ~last'.ok /\ db'[c] = db[c]
             ELSE last'.ok /\ RegisteredPending(c)]_vars

C16_RegisterCompleted ==
    [][\A c \in CitizenIds :
          (Ran(last', "handle_register_citizen_completed", c)
              /\ Cit(c).present /\ Aff(c).present /\ Aff(c).status # "TRANSFERRING")
             => /\ Cit(c)'.present /\ Aff(c)'.present
                /\ IF last'.arg.status_code = HTTP_CREATED
                   THEN /\ Cit(c)'.is_verified
                        /\ Cit(c)'.verification_status = "verified"
                        /\ Aff(c)'.status = "AFFILIATED"
                   ELSE /\ ~Cit(c)'.is_verified
                        /\ Cit(c)'.verification_status = "failed"
                        /\ Aff(c)'.status = "FAILED"]_vars

\* C16 witness: a registration was rejected by the authority: the citizen
\* register_citizen created is failed and its affiliation FAILED.
C16_Witness ==
    \E c \in CitizenIds :
        /\ Ran(last, "handle_register_citizen_completed", c)
        /\ last.arg.status_code # HTTP_CREATED
        /\ origin[c] = "register"
        /\ Cit(c).verification_status = "failed" /\ Aff(c).status = "FAILED"

\* ------------------------------------------------------------ C17
Is2xx(code) == code >= 200 /\ code < 300

\* The step handles unregister.completed(success = true) for c.
UnregisterSucceeded(c) ==
    Ran(last', "handle_unregister_citizen_completed", c) /\ last'.arg = [success |-> TRUE]

\* C17: unregister.completed(success = true) on a TRANSFERRING affiliation
\* with a stored destination API URL posts the payload to that URL once and
\* deletes nothing: both rows stay as they were, TRANSFERRING with the
\* destination columns intact; the continuation succeeds on any 2xx response
\* and fails on every other response.
C17_ContinueTransfer ==
    [][\A c \in CitizenIds :
          (UnregisterSucceeded(c)
              /\ Cit(c).present /\ Aff(c).present /\ Aff(c).status = "TRANSFERRING"
              /\ Truthy(Aff(c).transfer_destination_api_url))
             => /\ db'[c] = db[c]
                /\ \A i \in 1..Len(last'.fx) : last'.fx[i].k # "delete"
                /\ Cardinality(At(last'.fx, "post", Aff(c).transfer_destination_api_url)) = 1
                /\ \A i \in At(last'.fx, "post", Aff(c).transfer_destination_api_url) :
                      last'.fx[i].res = "ok" <=> Is2xx(last'.fx[i].arg)]_vars

\* ------------------------------------------------------------ C18
\* C18: unregister.completed(success = true) on an existing citizen whose
\* affiliation is not TRANSFERRING attempts to emit user.transferred, then
\* deletes the Affiliation, then the Citizen, whether the emission succeeds,
\* returns failure or raises.
C18_DirectDeletion ==
    [][\A c \in CitizenIds :
          (UnregisterSucceeded(c)
              /\ Cit(c).present /\ ~(Aff(c).present /\ Aff(c).status = "TRANSFERRING"))
             => /\ db'[c] = NoRows
                /\ \E i, k \in 1..Len(last'.fx) :
                      /\ i < k
                      /\ At(last'.fx, "publish", "user.transferred") = {i}
                      /\ At(last'.fx, "delete", "citizens") = {k}
                      /\ Aff(c).present =>
                            \E j \in 1..Len(last'.fx) :
                               /\ i < j /\ j < k
                               /\ At(last'.fx, "delete", "affiliations") = {j}]_vars

\* C18 witness: a direct deletion went through although its emission of
\* user.transferred did not succeed.
C18_Witness ==
    \E c \in CitizenIds :
        /\ Ran(last, "handle_unregister_citizen_completed", c)
        /\ last.arg = [success |-> TRUE]
        /\ \E i \in At(last.fx, "publish", "user.transferred") : last.fx[i].res # "ok"
        /\ At(last.fx, "delete", "affiliations") # {}
        /\ db[c] = NoRows

\* ------------------------------------------------------------ C19
\* C19: every Citizen has is_verified true if and only if its verification
\* status is verified.
C19_VerifiedIffStatus ==
    \A c \in CitizenIds :
        Cit(c).present => (Cit(c).is_verified <=> Cit(c).verification_status = "verified")

\* C19 witness: a citizen that was verified, and then refused by a later
\* register.completed, is unverified and failed.
C19_Witness ==
    \E c \in CitizenIds :
        /\ Ran(last, "handle_register_citizen_completed", c)
        /\ last.arg.status_code # HTTP_CREATED
        /\ Cit(c).present /\ ~Cit(c).is_verified /\ Cit(c).verification_status = "failed"
        /\ Aff(c).present /\ Aff(c).transfer_completed_at = "set"

\* ------------------------------------------------------------ C20
DestinationPopulated(aff) ==
    \/ aff.transfer_destination_operator_id # None
    \/ aff.transfer_destination_operator_name # None
    \/ aff.transfer_destination_api_url # None

\* C20: the destination columns are populated only during an outgoing
\* transfer and the confirmation callback URL only during an incoming one;
\* in particular an AFFILIATED Affiliation, whether rolled back from an
\* outgoing transfer or completed from an incoming one, has no destination
\* column and no callback URL set.
C20_FieldsFollowStatus ==
    \A c \in CitizenIds :
        (Aff(c).present /\ Aff(c).status = "AFFILIATED")
            => /\ ~DestinationPopulated(Aff(c))
               /\ ~Truthy(Aff(c).transfer_confirmation_url)

\* ------------------------------------------------------------ C24
NothingDeleted(fx) == \A i \in 1..Len(fx) : fx[i].k # "delete"

Published(fx) == {i \in 1..Len(fx) : fx[i].k = "publish"}

\* C26: for a citizen that arrived by transfer, register.requested is emitted
\* by the handling of documents.ready and by nothing else: receive_transfer
\* emits documents.download.requested only, and handle_documents_ready first
\* saves documents_ready = true, then emits register.requested, then runs the
\* gate, whose effects come last.
C26_RegisterAfterDocuments ==
    [][\A c \in CitizenIds :
          /\ (Ran(last', "receive_transfer", c)) =>
                \A i \in Published(last'.fx) :
                    last'.fx[i].what = "documents.download.requested"
          /\ (origin'[c] = "transfer" /\ Emitted(last'.fx, "register.citizen.requested")) =>
                /\ Ran(last', "handle_documents_ready", c)
                /\ Aff(c)'.documents_ready
                /\ last'.fx[1].k = "save" /\ last'.fx[1].what = "affiliations"
                /\ At(last'.fx, "publish", "register.citizen.requested") = {2}
                /\ \E http \in ConfirmResponses, pub \in BOOLEAN :
                      SubSeq(last'.fx, 3, Len(last'.fx)) =
                          check_and_complete_transfer(
                              [cit |-> Cit(c), aff |-> [Aff(c) EXCEPT !.documents_ready = TRUE]],
                              c, http, pub).fx]_vars

\* C26 witness: documents.ready arrived for a transferred citizen that was
\* verified already; register.requested went out before the gate completed.
C26_Witness ==
    \E c \in CitizenIds :
        /\ Ran(last, "handle_documents_ready", c) /\ origin[c] = "transfer"
        /\ At(last.fx, "publish", "register.citizen.requested") = {2}
        /\ \E i \in At(last.fx, "publish", "affiliation.created") : i > 2
        /\ Aff(c).status = "AFFILIATED"

\* ------------------------------------------------------------ C27
\* C27: a failed registration is terminal: once the citizen is failed and
\* the affiliation FAILED, no inbound event (register.completed,
\* documents.ready, unregister.completed) moves the status away from FAILED.
C27_FailedIsTerminal ==
    [][\A c \in CitizenIds :
          (Cit(c).present /\ Cit(c).verification_status = "failed"
              /\ Aff(c).present /\ Aff(c).status = "FAILED"
              /\ last'.op \in {"handle_register_citizen_completed",
                               "handle_documents_ready",
                               "handle_unregister_citizen_completed"}
              /\ last'.id = c /\ Aff(c)'.present)
             => Aff(c)'.status = "FAILED"]_vars

\* ------------------------------------------------------------ C22
\* The step is a delivery: the callback has run on disp'.msg.
IsDelivery == disp' # NoDelivery /\ disp'.seq # disp.seq

Requeued == disp'.msg \in queue'

\* C22: a message whose body cannot be decoded is nacked without requeue and
\* not delivered again; the handler is not called and the registry does not
\* change.
C22_UndecodableDropped ==
    [][(IsDelivery /\ disp'.msg.body \in {"not_utf8", "not_json"})
          => /\ disp'.calls = <<"basic_nack">>
             /\ ~Requeued
             /\ ~disp'.invoked
             /\ db' = db]_vars

\* ------------------------------------------------------------ C23
\* The handler run of the step met a registry write that raised.
WriteFailed(fx) ==
    \E i \in 1..Len(fx) : fx[i].k \in {"save", "delete", "create"} /\ fx[i].res = "raise"

\* The handler run of the step was a no-op of the state machine.
NoOp == db' = db /\ last'.fx = <<>>

\* C23: a delivery whose handling meets an exception, such as a registry
\* write that fails, is nacked with requeue; a delivery whose handling is a
\* no-op (unknown citizen, status not matching) is acked and not requeued;
\* every delivery gets exactly one ack or nack.
C23_AckDecision ==
    [][IsDelivery =>
          /\ Len(disp'.calls) = 1
          /\ disp'.msg.body = "object" =>
                /\ WriteFailed(last'.fx) => (disp'.calls = <<"basic_nack_requeue">> /\ Requeued)
                /\ NoOp => (disp'.calls = <<"basic_ack">> /\ ~Requeued)]_vars

\* ------------------------------------------------------------ C25
\* The step is a call of the API: no message is published or delivered.
IsCall == disp' = NoDelivery /\ queue' = queue

\* C25: with no local Citizen of that id, send_transfer,
\* handle_transfer_confirmation and delete_affiliation return failure, and
\* the handlers of register.completed, unregister.completed and
\* documents.ready return without raising, so that the message is acked; in
\* every case the registry is unchanged, nothing is created and nothing is
\* emitted.
C25_UnknownCitizenNoOp ==
    [][\A c \in CitizenIds :
          ~Cit(c).present =>
             /\ (IsCall /\ last'.id = c /\ last'.op \in {"send_transfer", "handle_transfer_confirmation",
                                               "delete_affiliation"})
                   => (~last'.ok /\ db' = db /\ last'.fx = <<>>)
             /\ (IsDelivery /\ disp'.msg.body = "object" /\ disp'.msg.id = c)
                   => /\ db' = db /\ last'.fx = <<>>
                      /\ Ran(last', HandlerOf(disp'.msg.queue), c)
                      /\ ~disp'.raised
                      /\ disp'.calls = <<"basic_ack">> /\ ~Requeued]_vars

\* C25 witness: an unregister.completed for a citizen with no local record
\* was handled as a no-op and acked.
C25_Witness ==
    \E c \in CitizenIds :
        /\ disp.msg.queue = "unregister.citizen.completed" /\ disp.msg.id = c
        /\ disp.calls = <<"basic_ack">> /\ disp.invoked
        /\ Ran(last, "handle_unregister_citizen_completed", c) /\ last.fx = <<>>
        /\ db[c] = NoRows
        /\ origin[c] = "none"

\* ------------------------------------------------------------ C28
\* C28: when the external call made while handling unregister.completed
\* (success = true) for a TRANSFERRING citizen fails (the peer operator times
\* out or answers non-2xx), the message is nacked with requeue and stays in
\* the queue for redelivery.
C28_ExternalFailureRequeues ==
    [][\A c \in CitizenIds :
          (IsDelivery /\ disp'.msg.body = "object" /\ disp'.msg.id = c
              /\ disp'.msg.queue = "unregister.citizen.completed" /\ disp'.msg.arg.success
              /\ Cit(c).present /\ Aff(c).present /\ Aff(c).status = "TRANSFERRING"
              /\ \E i \in 1..Len(last'.fx) :
                    /\ last'.fx[i].k = "post" /\ last'.fx[i].res # "ok"
                    /\ ~Is2xx(last'.fx[i].arg))
             => (disp'.calls = <<"basic_nack_requeue">> /\ Requeued)]_vars

\* ------------------------------------------------------------ C21
\* C21: at every point there is at most one Citizen row and at most one
\* Affiliation row of a citizen_id, and every Affiliation row refers to a
\* Citizen row that exists.
C21_OnePerCitizenId ==
    /\ Cardinality(tables.citizens) <= 1
    /\ Cardinality(tables.affiliations) <= 1
    /\ \A a \in tables.affiliations : a.citizen \in tables.citizens

\* C21 witness: a second create of the same citizen_id has been refused
\* while the first call's Citizen and Affiliation exist.
C21_Witness ==
    \E p \in Creators, q \in Creators :
        /\ p # q
        /\ tables = [citizens |-> {p}, affiliations |-> {[pk |-> p, citizen |-> p]}]
        /\ procs[q].err = "IntegrityError"

\* ------------------------------------------------------------ C29
\* C29: a call that runs concurrently with register_citizen or
\* receive_transfer and reads the Citizen of an id finds its Affiliation too:
\* the two rows appear together.
C29_CreatedTogether ==
    [][(/\ procs[Confirmer].pc = "get_affiliation"
        /\ procs'[Confirmer].pc # "get_affiliation"
        /\ procs[Confirmer].citizen \in tables.citizens
        /\ procs[procs[Confirmer].citizen].fault = "none")
          => HasAffiliation(tables, procs[Confirmer].citizen)]_vars

\* ------------------------------------------------------------ C30
AllReturned == \A p \in Creators : procs[p].pc = "done"

Successes == {p \in Creators : procs[p].pc = "done" /\ procs[p].ok}

\* C30: of two concurrent calls creating the same citizen_id at most one
\* returns success, the rows of a call that returned success are not removed
\* by the other call's compensating delete, and when both have returned
\* (nothing but the race having gone wrong) exactly one Citizen and one
\* Affiliation exist.  Stated for the two creators alone: no transfer
\* confirmation runs.
C30_ConcurrentCreate ==
    procs[Confirmer].pc = "idle" =>
        /\ Cardinality(Successes) <= 1
        /\ \A p \in Successes :
              p \in tables.citizens /\ [pk |-> p, citizen |-> p] \in tables.affiliations
        /\ (AllReturned /\ \A p \in Creators : procs[p].fault = "none")
              => /\ Cardinality(tables.citizens) = 1
                 /\ Cardinality(tables.affiliations) = 1
                 /\ Cardinality(Successes) = 1

\* C30 witness: register_citizen and receive_transfer raced past the
\* existence check; one returned success, the other's create was refused and
\* its except clause has run.
C30_Witness ==
    \E p \in Creators, q \in Creators :
        /\ procs[Confirmer].pc = "idle"
        /\ AllReturned
        /\ procs[p].ok /\ procs[p].kind = "register_citizen"
        /\ ~procs[q].ok /\ procs[q].kind = "receive_transfer"
        /\ procs[q].err = "IntegrityError"
        /\ tables = [citizens |-> {p}, affiliations |-> {[pk |-> p, citizen |-> p]}]

\* ------------------------------------------------------------ C31
\* The affiliation of c is TRANSFERRING because send_transfer has put it
\* there: only send_transfer writes the destination URL, and a citizen that
\* receive_transfer creates has none.
Outgoing(c) ==
    /\ Cit(c).present /\ Aff(c).present
    /\ Aff(c).status = "TRANSFERRING"
    /\ Aff(c).transfer_destination_api_url # None

GateCallers ==
    {"check_and_complete_transfer", "handle_documents_ready",
     "handle_register_citizen_completed"}

\* C31: on an outgoing transfer no run of the gate, called on its own, by
\* documents.ready or by register.completed, sets the status to AFFILIATED,
\* posts a confirmation or emits affiliation.created.
C31_GateIncomingOnly ==
    [][\A c \in CitizenIds :
          (Outgoing(c) /\ last'.id = c /\ last'.op \in GateCallers)
             => /\ db'[c].aff.status # "AFFILIATED"
                /\ ConfirmedTo(last'.fx) = <<>>
                /\ ~Emitted(last'.fx, "affiliation.created")]_vars

\* ------------------------------------------------------------ C32
\* C32: handle_transfer_confirmation changes the registry only when the
\* affiliation is an outgoing transfer; in every other status it deletes
\* nothing with req_status 1 and sets nothing to AFFILIATED with req_status 0.
C32_ConfirmationGuard ==
    [][\A c \in CitizenIds :
          (/\ Ran(last', "handle_transfer_confirmation", c)
           /\ Cit(c).present /\ Aff(c).present
           /\ ~Outgoing(c))
             => db'[c] = db[c]]_vars

\* ------------------------------------------------------------ C33
\* C33: a citizen that register_citizen created is AFFILIATED only if it is
\* verified.
C33_AffiliatedIsVerified ==
    \A c \in CitizenIds :
        (/\ origin[c] = "register"
         /\ Cit(c).present /\ Aff(c).present
         /\ Aff(c).status = "AFFILIATED")
           => Cit(c).is_verified

\* ------------------------------------------------------------ C37
\* C37: documents.ready processed for an incoming transfer that has
\* completed, or processed a second time, changes no field of the Citizen or
\* the Affiliation and emits no register.citizen.requested.
C37_RedeliveryHarmless ==
    [][\A c \in CitizenIds :
          (/\ Ran(last', "handle_documents_ready", c)
           /\ origin[c] = "transfer"
           /\ Cit(c).present /\ Aff(c).present
           /\ Aff(c).documents_ready)
             => /\ db'[c] = db[c]
                /\ ~Emitted(last'.fx, "register.citizen.requested")]_vars

\* ------------------------------------------------------------ C34
\* What the workers of the scene have emitted, by kind.
EmittedBy(w, ev) == Len(SelectSeq(wk[w].fx, LAMBDA e : e = ev))

\* C34: while documents.ready and register.completed are handled
\* concurrently for an incoming transfer, the two workers together post at
\* most one confirmation and emit at most one affiliation.created.
C34_CompletedOnce ==
    scene = "gate" =>
        /\ EmittedBy("documents", "confirm") + EmittedBy("register", "confirm") <= 1
        /\ EmittedBy("documents", "affiliation.created")
              + EmittedBy("register", "affiliation.created") <= 1

\* ------------------------------------------------------------ C35
BothHandled == wk["documents"].pc = "done" /\ wk["register"].pc = "done"

\* C35: once documents.ready and register.completed(201) of an incoming
\* transfer are both delivered, the citizen ends AFFILIATED and registered,
\* whatever the interleaving of the two workers; they never both finish with
\* the status still TRANSFERRING.
C35_NoLostWakeup ==
    (scene = "gate") ~> (/\ BothHandled
                         /\ row.aff.status = "AFFILIATED"
                         /\ row.cit.is_registered)

\* C35 witness: the gate run by register.completed found the documents
\* missing and gave up, and the gate run by documents.ready completed the
\* transfer.
C35_Witness ==
    /\ scene = "gate" /\ BothHandled
    /\ ~wk["register"].ok /\ wk["documents"].ok
    /\ ~wk["register"].affiliation.documents_ready
    /\ row.aff.status = "AFFILIATED" /\ row.cit.is_registered

\* ------------------------------------------------------------ C36
\* C36: of two concurrent send_transfer calls with different targets at most
\* one returns success, at most one unregister.citizen.requested is emitted,
\* and the destination stored is that of the call that returned success.
C36_OneSender ==
    (scene = "send" /\ wk["send1"].pc = "done" /\ wk["send2"].pc = "done") =>
        /\ ~(wk["send1"].ok /\ wk["send2"].ok)
        /\ EmittedBy("send1", "unregister.citizen.requested")
              + EmittedBy("send2", "unregister.citizen.requested") <= 1
        /\ \A w \in {"send1", "send2"} :
              wk[w].ok => row.aff.transfer_destination_api_url = TargetOf(w).api_url

\* ------------------------------------------------------------ C39
\* C39: a message whose body is undecodable or no JSON object does not stay
\* in its queue for ever: the callback eventually acks it or nacks it
\* without requeue.
C39_NoPoisonLoop ==
    \A m \in {x \in Messages : x.body \in Malformed} : (m \in queue) ~> (m \notin queue)

\* ------------------------------------------------------------ C38
OutgoingAt(o) ==
    /\ site[o].cit.present /\ site[o].aff.present
    /\ site[o].aff.status = "TRANSFERRING"
    /\ site[o].aff.transfer_destination_api_url # None

AffiliatedAt(o) ==
    site[o].cit.present /\ site[o].aff.present /\ site[o].aff.status = "AFFILIATED"

\* C38: under fair event delivery an affiliation that send_transfer has put
\* into TRANSFERRING is eventually deleted or back to AFFILIATED.
C38_TransferResolves ==
    OutgoingAt("src") ~> (~site["src"].cit.present \/ AffiliatedAt("src"))

\* ------------------------------------------------------------ C40
\* C40: the citizen is never AFFILIATED at the source and at the destination
\* at once.
C40_SingleHolder == ~(AffiliatedAt("src") /\ AffiliatedAt("dst"))

====
